---- MODULE Spec2Model ----
(***************************************************************************)
(* Panamax Kubernetes adapter: the translation of a batch of Panamax       *)
(* services into replication controllers and Kubernetes services, and the  *)
(* create / destroy call sequences the adapter runs against the cluster.   *)
(*                                                                         *)
(* Names are sequences of one-character strings, so that the name          *)
(* sanitizer is computed character by character as the regular expression  *)
(* and strings.ToLower compute it.                                         *)
(***************************************************************************)
EXTENDS Integers, Sequences, FiniteSets, TLC

\* ------------------------------------------------------------------ bounds

\* Number of adapter requests issued in one behaviour.
MaxRequests == 2

\* Number of backend calls that fail for a reason of the transport or the
\* cluster (neither not-found nor already-exists) in one behaviour.
MaxFaults == 1

\* HTTP handlers run concurrently, one goroutine per request in flight.
Clients == {1, 2}

\* Largest actual replica count a replication controller reports.
MaxReplicas == 3

\* Largest error code in the range of codes an adapter error is given.
MaxCode == 600

\* The longest name drawn from the characters of a name.
MaxNameLen == 3

\* ------------------------------------------------------- program constants

StatusConflict == 409
StatusNotFound == 404
StatusInternalServerError == 500

multiplePortsError == "multiple ports from a single container is not currently supported"
\* The words of multiplePortsError.
multiplePortsErrorWords ==
  <<"multiple", "ports", "from", "a", "single", "container", "is", "not",
    "currently", "supported">>

\* SERVICE_PUBLIC_IP is unset: PublicIPs stays the nil slice.
PublicIPs == <<>>

\* ------------------------------------------------------------ name sanitizer

Lower == {"a","b","c","d","e","f","g","h","i","j","k","l","m",
          "n","o","p","q","r","s","t","u","v","w","x","y","z"}
Upper == {"A","B","C","D","E","F","G","H","I","J","K","L","M",
          "N","O","P","Q","R","S","T","U","V","W","X","Y","Z"}
Digits == {"0","1","2","3","4","5","6","7","8","9"}

\* regexp `[\W_]`: one character that is no ASCII letter and no digit.
IllegalChar(c) == c \notin (Lower \cup Upper \cup Digits)

\* strings.ToLower on one character.
ToLowerChar(c) ==
  CASE c = "A" -> "a" [] c = "B" -> "b" [] c = "C" -> "c" [] c = "D" -> "d"
    [] c = "E" -> "e" [] c = "F" -> "f" [] c = "G" -> "g" [] c = "H" -> "h"
    [] c = "I" -> "i" [] c = "J" -> "j" [] c = "K" -> "k" [] c = "L" -> "l"
    [] c = "M" -> "m" [] c = "N" -> "n" [] c = "O" -> "o" [] c = "P" -> "p"
    [] c = "Q" -> "q" [] c = "R" -> "r" [] c = "S" -> "s" [] c = "T" -> "t"
    [] c = "U" -> "u" [] c = "V" -> "v" [] c = "W" -> "w" [] c = "X" -> "x"
    [] c = "Y" -> "y" [] c = "Z" -> "z" [] OTHER -> c

RECURSIVE SkipIllegal(_)
\* The rest of n after its leading run of illegal characters.
SkipIllegal(n) ==
  IF n = <<>> THEN <<>>
  ELSE IF IllegalChar(Head(n)) THEN SkipIllegal(Tail(n)) ELSE n

\* Mutant: every illegal character, not every run of them, becomes one "-".
ReplaceAllIllegal_EachCharacter(n) ==
  [k \in 1..Len(n) |-> IF IllegalChar(n[k]) THEN "-" ELSE n[k]]

RECURSIVE ReplaceAllIllegal_Doubled(_)
\* Mutant: every illegal character becomes "--".
ReplaceAllIllegal_Doubled(n) ==
  IF n = <<>> THEN <<>>
  ELSE IF IllegalChar(Head(n))
       THEN <<"-", "-">> \o ReplaceAllIllegal_Doubled(Tail(n))
       ELSE <<Head(n)>> \o ReplaceAllIllegal_Doubled(Tail(n))

RECURSIVE ReplaceAllIllegal(_)
\* illegalNameCharacters.ReplaceAllString(n, "-"): every maximal run of
\* illegal characters becomes one "-".
ReplaceAllIllegal(n) ==
  IF n = <<>> THEN <<>>
  ELSE IF IllegalChar(Head(n))
       THEN <<"-">> \o ReplaceAllIllegal(SkipIllegal(Tail(n)))
       ELSE <<Head(n)>> \o ReplaceAllIllegal(Tail(n))

ToLower(n) == [k \in 1..Len(n) |-> ToLowerChar(n[k])]

sanitizeServiceName(n) == ToLower(ReplaceAllIllegal(n))

\* ------------------------------------------------------------------ errors

NoMsg == [text |-> "", arg |-> <<>>]
NoErr == [typ |-> "none", code |-> 0, reason |-> "", msg |-> NoMsg]

\* pmxadapter.NewError: the typed adapter error.
NewError(code, msg) == [typ |-> "pmx", code |-> code, reason |-> "", msg |-> msg]
NewAlreadyExistsError(msg) == NewError(StatusConflict, msg)
NewNotFoundError(msg) == NewError(StatusNotFound, msg)

\* fmt.Errorf / errors.New: an untyped error.
Errorf(text, arg) ==
  [typ |-> "plain", code |-> 0, reason |-> "", msg |-> [text |-> text, arg |-> arg]]

\* The cluster's *errors.StatusError values.
StatusAlreadyExists(name) ==
  [typ |-> "status", code |-> StatusConflict, reason |-> "AlreadyExists",
   msg |-> [text |-> "already exists", arg |-> name]]
StatusNotFoundErr(name) ==
  [typ |-> "status", code |-> StatusNotFound, reason |-> "NotFound",
   msg |-> [text |-> "not found", arg |-> name]]
StatusConflictErr(name) ==
  [typ |-> "status", code |-> StatusConflict, reason |-> "Conflict",
   msg |-> [text |-> "the object has been modified", arg |-> name]]

\* Any other failure of a backend call (transport, server error).
BackendFailure == Errorf("backend failure", <<>>)

\* err.(*errors.StatusError) with the given ErrStatus.Reason.
IsStatusReason(err, reason) == err.typ = "status" /\ err.reason = reason

\* ------------------------------------------------------ workload spec builder

\* Mutant: the replica count of the service is passed on as it is.
replicationControllerSpecFromService_RawCount(s) ==
  LET safeName == sanitizeServiceName(s.name) IN
  [name |-> safeName,
   resourceVersion |-> 0,
   replicas |-> s.count,
   selector |-> [serviceName |-> safeName],
   labels |-> [serviceName |-> safeName, panamax |-> "panamax"],
   containers |-> << [name |-> safeName, image |-> s.source,
                      command |-> IF s.command # "" THEN <<s.command>> ELSE <<>>,
                      ports |-> s.ports,
                      env |-> [k \in 1..Len(s.environment) |->
                                 [name |-> s.environment[k].variable,
                                  value |-> s.environment[k].value]]] >>,
   statusReplicas |-> 0]

\* Mutant: the selector and the container carry the name as the caller wrote
\* it, and the environment is taken over back to front.
replicationControllerSpecFromService_RawSelector(s) ==
  LET safeName == sanitizeServiceName(s.name) IN
  [name |-> safeName,
   resourceVersion |-> 0,
   replicas |-> IF s.count = 0 THEN 1 ELSE s.count,
   selector |-> [serviceName |-> s.name],
   labels |-> [serviceName |-> safeName, panamax |-> "panamax"],
   containers |-> << [name |-> s.name, image |-> s.source,
                      command |-> IF s.command # "" THEN <<s.command>> ELSE <<>>,
                      ports |-> s.ports,
                      env |-> [k \in 1..Len(s.environment) |->
                                 [name |-> s.environment[Len(s.environment) + 1 - k].variable,
                                  value |-> s.environment[Len(s.environment) + 1 - k].value]]] >>,
   statusReplicas |-> 0]

\* Mutant: the start command is always passed on as the one argument.
replicationControllerSpecFromService_EmptyArgument(s) ==
  LET safeName == sanitizeServiceName(s.name) IN
  [name |-> safeName,
   resourceVersion |-> 0,
   replicas |-> IF s.count = 0 THEN 1 ELSE s.count,
   selector |-> [serviceName |-> safeName],
   labels |-> [serviceName |-> safeName, panamax |-> "panamax"],
   containers |-> << [name |-> safeName, image |-> s.source,
                      command |-> <<s.command>>,
                      ports |-> s.ports,
                      env |-> [k \in 1..Len(s.environment) |->
                                 [name |-> s.environment[k].variable,
                                  value |-> s.environment[k].value]]] >>,
   statusReplicas |-> 0]

\* The api.ReplicationController built for one Panamax service.  A service is
\* [name, source, command, ports, links, environment, count]; a port is
\* [hostPort, containerPort, protocol]; a link is [name, alias]; an
\* environment entry is [variable, value].
replicationControllerSpecFromService(s) ==
  LET ports == [k \in 1..Len(s.ports) |->
                  [hostPort |-> s.ports[k].hostPort,
                   containerPort |-> s.ports[k].containerPort,
                   protocol |-> s.ports[k].protocol]]
      env == [k \in 1..Len(s.environment) |->
                [name |-> s.environment[k].variable,
                 value |-> s.environment[k].value]]
      safeName == sanitizeServiceName(s.name)
      commands == IF s.command # "" THEN <<s.command>> ELSE <<>>
      replicas == IF s.count = 0 THEN 1 ELSE s.count
  IN [name |-> safeName,
      resourceVersion |-> 0,
      replicas |-> replicas,
      selector |-> [serviceName |-> safeName],
      labels |-> [serviceName |-> safeName, panamax |-> "panamax"],
      containers |-> << [name |-> safeName, image |-> s.source,
                         command |-> commands, ports |-> ports, env |-> env] >>,
      statusReplicas |-> 0]

\* ------------------------------------------------------ network spec resolver

\* The api.Service exposing port p under the given name.
kServiceByNameAndPort(name, p) ==
  [name |-> name,
   labels |-> [serviceName |-> name],
   selector |-> [panamax |-> "panamax"],
   port |-> p.hostPort,
   containerPort |-> p.containerPort,
   protocol |-> p.protocol,
   publicIPs |-> PublicIPs]

\* Mutant: the port check fails with an untyped error.
validateServicesPorts_Untyped(services) ==
  IF \E k \in 1..Len(services) : Len(services[k].ports) > 1
  THEN Errorf(multiplePortsError, <<>>)
  ELSE NoErr

\* Mutant: the port check is skipped.
validateServicesPorts_Skipped(services) == NoErr

RECURSIVE validateServicesPorts(_)
\* The first service with more than one port fails the batch.
validateServicesPorts(services) ==
  IF services = <<>> THEN NoErr
  ELSE IF Len(Head(services).ports) > 1
       THEN NewAlreadyExistsError([text |-> multiplePortsError, arg |-> <<>>])
       ELSE validateServicesPorts(Tail(services))

RECURSIVE AllLinks(_)
\* The links of the batch in the order the nested loops visit them.
AllLinks(services) ==
  IF services = <<>> THEN <<>>
  ELSE Head(services).links \o AllLinks(Tail(services))

RECURSIVE ValidateAliasesFrom_AnyRepeat(_, _)
\* Mutant: an alias seen before is refused whatever service it names.
ValidateAliasesFrom_AnyRepeat(links, aliases) ==
  IF links = <<>> THEN NoErr
  ELSE LET l == Head(links) IN
       IF l.alias = <<>> THEN ValidateAliasesFrom_AnyRepeat(Tail(links), aliases)
       ELSE IF l.alias \in DOMAIN aliases
            THEN Errorf("multiple services with the same alias name", l.alias)
            ELSE ValidateAliasesFrom_AnyRepeat(Tail(links), (l.alias :> l.name) @@ aliases)

RECURSIVE ValidateAliasesFrom(_, _)
\* The loop of validateServicesAliases over the remaining links, with the
\* aliases map built so far (a function from alias to link name).
ValidateAliasesFrom(links, aliases) ==
  IF links = <<>> THEN NoErr
  ELSE LET l == Head(links) IN
       IF l.alias = <<>> THEN ValidateAliasesFrom(Tail(links), aliases)
       ELSE IF l.alias \in DOMAIN aliases /\ aliases[l.alias] # l.name
            THEN Errorf("multiple services with the same alias name", l.alias)
            ELSE ValidateAliasesFrom(Tail(links), (l.alias :> l.name) @@ aliases)

validateServicesAliases(services) ==
  ValidateAliasesFrom(AllLinks(services), <<>>)

\* servicesByName: the names of the batch, and the service the map holds for
\* a name (a later service of the same name overwrites an earlier one).
ServiceNames(services) == {services[k].name : k \in 1..Len(services)}
ServiceByName(services, name) ==
  LET ks == {k \in 1..Len(services) : services[k].name = name}
      last == CHOOSE k \in ks : \A j \in ks : j <= k
  IN services[last]

RECURSIVE KServicesByName_Unsanitized(_)
\* Mutant: the api.Service is named by the service's name as written.
KServicesByName_Unsanitized(services) ==
  IF services = <<>> THEN <<>>
  ELSE LET s == Head(services) IN
       IF Len(s.ports) = 0 THEN KServicesByName_Unsanitized(Tail(services))
       ELSE <<kServiceByNameAndPort(s.name, s.ports[1])>>
              \o KServicesByName_Unsanitized(Tail(services))

RECURSIVE KServicesByName(_)
\* First loop of kServicesFromServices: one api.Service per service with a
\* port, for its first port.
KServicesByName(services) ==
  IF services = <<>> THEN <<>>
  ELSE LET s == Head(services) IN
       IF Len(s.ports) = 0 THEN KServicesByName(Tail(services))
       ELSE <<kServiceByNameAndPort(sanitizeServiceName(s.name), s.ports[1])>>
              \o KServicesByName(Tail(services))

RECURSIVE KServicesByAlias_SkipsBad(_, _, _)
\* Mutant: an aliased link whose target is missing or exposes no port is
\* passed over.
KServicesByAlias_SkipsBad(links, services, kServices) ==
  IF links = <<>> THEN [kServices |-> kServices, err |-> NoErr]
  ELSE LET l == Head(links) IN
       IF l.alias = <<>> \/ l.name \notin ServiceNames(services)
       THEN KServicesByAlias_SkipsBad(Tail(links), services, kServices)
       ELSE IF Len(ServiceByName(services, l.name).ports) = 0
            THEN KServicesByAlias_SkipsBad(Tail(links), services, kServices)
            ELSE KServicesByAlias_SkipsBad(Tail(links), services,
                   Append(kServices,
                          kServiceByNameAndPort(sanitizeServiceName(l.alias),
                                                ServiceByName(services, l.name).ports[1])))

RECURSIVE KServicesByAlias_Prepended(_, _, _)
\* Mutant: the api.Service of an alias is put before the ones built so far.
KServicesByAlias_Prepended(links, services, kServices) ==
  IF links = <<>> THEN [kServices |-> kServices, err |-> NoErr]
  ELSE LET l == Head(links) IN
       IF l.alias = <<>> THEN KServicesByAlias_Prepended(Tail(links), services, kServices)
       ELSE IF l.name \notin ServiceNames(services)
            THEN [kServices |-> <<>>,
                  err |-> Errorf("linking to non-existant service", l.name)]
            ELSE IF Len(ServiceByName(services, l.name).ports) = 0
                 THEN [kServices |-> <<>>,
                       err |-> Errorf("linked-to service exposes no ports", l.name)]
                 ELSE KServicesByAlias_Prepended(Tail(links), services,
                        <<kServiceByNameAndPort(sanitizeServiceName(l.alias),
                                                ServiceByName(services, l.name).ports[1])>>
                          \o kServices)

RECURSIVE KServicesByAlias(_, _, _)
\* Second loop of kServicesFromServices over the remaining links: appends to
\* kServices, or returns (nil, err) at the first bad aliased link.
KServicesByAlias(links, services, kServices) ==
  IF links = <<>> THEN [kServices |-> kServices, err |-> NoErr]
  ELSE LET l == Head(links) IN
       IF l.alias = <<>> THEN KServicesByAlias(Tail(links), services, kServices)
       ELSE IF l.name \notin ServiceNames(services)
            THEN [kServices |-> <<>>,
                  err |-> Errorf("linking to non-existant service", l.name)]
            ELSE LET toService == ServiceByName(services, l.name) IN
                 IF Len(toService.ports) = 0
                 THEN [kServices |-> <<>>,
                       err |-> Errorf("linked-to service exposes no ports", l.name)]
                 ELSE KServicesByAlias(Tail(links), services,
                        Append(kServices,
                               kServiceByNameAndPort(sanitizeServiceName(l.alias),
                                                     toService.ports[1])))

\* Mutant: the aliases are validated before the ports.
kServicesFromServices_AliasesFirst(services) ==
  IF validateServicesAliases(services) # NoErr
  THEN [kServices |-> <<>>, err |-> validateServicesAliases(services)]
  ELSE IF validateServicesPorts(services) # NoErr
       THEN [kServices |-> <<>>, err |-> validateServicesPorts(services)]
       ELSE KServicesByAlias(AllLinks(services), services, KServicesByName(services))

kServicesFromServices(services) ==
  IF validateServicesPorts(services) # NoErr
  THEN [kServices |-> <<>>, err |-> validateServicesPorts(services)]
  ELSE IF validateServicesAliases(services) # NoErr
       THEN [kServices |-> <<>>, err |-> validateServicesAliases(services)]
       ELSE KServicesByAlias(AllLinks(services), services, KServicesByName(services))

\* ----------------------------------------------------------- status aggregator

\* Mutant: every listed pod is counted as running.
statusFromReplicationController_CountsAll(rc, pods) ==
  IF rc.statusReplicas < rc.replicas
  THEN [status |-> [text |-> "pending", running |-> 0, desired |-> 0], err |-> NoErr]
  ELSE IF rc.replicas = rc.statusReplicas
       THEN IF pods.err # NoErr
            THEN [status |-> [text |-> "", running |-> 0, desired |-> 0], err |-> pods.err]
            ELSE [status |-> [text |-> "running", running |-> Len(pods.phases),
                              desired |-> rc.replicas],
                  err |-> NoErr]
       ELSE [status |-> [text |-> "unknown", running |-> 0, desired |-> 0], err |-> NoErr]

\* statusFromReplicationController: rc is the replication controller, pods the
\* answer of GetPods for its "service-name" selector as [phases, err]; it is
\* consulted only when desired = actual.  The result is [status, err]; the
\* running status is kept as its two numbers.
statusFromReplicationController(rc, pods) ==
  LET desired == rc.replicas
      actual == rc.statusReplicas
  IN IF actual < desired
     THEN [status |-> [text |-> "pending", running |-> 0, desired |-> 0], err |-> NoErr]
     ELSE IF desired = actual
          THEN IF pods.err # NoErr
               THEN [status |-> [text |-> "", running |-> 0, desired |-> 0], err |-> pods.err]
               ELSE [status |-> [text |-> "running",
                                 running |-> Cardinality({k \in 1..Len(pods.phases) :
                                                            pods.phases[k] = "Running"}),
                                 desired |-> desired],
                     err |-> NoErr]
          ELSE [status |-> [text |-> "unknown", running |-> 0, desired |-> 0], err |-> NoErr]

\* ------------------------------------------------------------------- inputs

NameWeb == <<"W", "_", "b">>
NameDb == <<"d", "b">>
NameGhost == <<"x">>
AliasCache == <<"c">>
NoAlias == <<>>

PortA == [hostPort |-> 31981, containerPort |-> 12345, protocol |-> "TCP"]
PortB == [hostPort |-> 1, containerPort |-> 1, protocol |-> "TCP"]

Svc(name, ports, links, count) ==
  [name |-> name, source |-> "redis", command |-> "redis-server",
   ports |-> ports, links |-> links,
   environment |-> << [variable |-> "VAR_NAME", value |-> "Var Value"] >>,
   count |-> count]

Link(name, alias) == [name |-> name, alias |-> alias]

\* The services a caller deploys in one behaviour: a first service and a
\* second one, each in every shape of ports and links.
FirstServices ==
  {Svc(NameWeb, ports, links, 0) :
     ports \in {<<>>, <<PortA>>, <<PortA, PortB>>},
     links \in {<<>>, <<Link(NameDb, NoAlias)>>, <<Link(NameDb, AliasCache)>>,
                <<Link(NameGhost, AliasCache)>>}}
SecondServices ==
  {Svc(NameDb, ports, links, 2) :
     ports \in {<<>>, <<PortB>>},
     links \in {<<>>, <<Link(NameWeb, AliasCache)>>}}
Pools == {<<a, b>> : a \in FirstServices, b \in SecondServices}

\* The batches of one request: all services of the pool in their order, or
\* any one of them alone.
Batches(services) ==
  {services} \cup {<<services[k]>> : k \in 1..Len(services)}

\* The ids of a get or destroy request: a workload name, or the name of a
\* service as the caller wrote it.
Ids(services) ==
  {sanitizeServiceName(services[k].name) : k \in 1..Len(services)}
    \cup {services[k].name : k \in 1..Len(services)}

\* A service that the cluster holds from the start and the adapter did not
\* create, labeled for the second workload.
ForeignKService ==
  [kServiceByNameAndPort(<<"d", "b", "2">>, PortB)
     EXCEPT !.labels = [serviceName |-> sanitizeServiceName(NameDb)]]

\* All orders of a finite set.
Orders(S) ==
  {q \in [1..Cardinality(S) -> S] : \A j, k \in 1..Cardinality(S) : q[j] = q[k] => j = k}

\* -------------------------------------------------------------------- state

VARIABLES
  pool,        \* the services the callers deploy
  kservices,   \* cluster: the api.Service objects of the namespace
  rcs,         \* cluster: the api.ReplicationController objects
  pods,        \* cluster: the api.Pod objects
  nextRV,      \* cluster: the next resource version
  pc,          \* per client: the position of its request handler
  local,       \* per client: the handler's local variables
  result,      \* per client: what its last request returned
  calls,       \* per client: the backend calls of its request, in order
  backendErr,  \* per client: the error the backend gave its request, if any
  interfered,  \* per client: another request changed the cluster meanwhile
  reqsLeft,    \* requests still to be issued
  faultsLeft   \* backend failures still to be injected

vars == <<pool, kservices, rcs, pods, nextRV, pc, local, result, calls, backendErr,
          interfered, reqsLeft, faultsLeft>>

NoStatus == [text |-> "", running |-> 0, desired |-> 0]
NoDeployment == [id |-> <<>>, actualState |-> NoStatus]
NoRC == [replicationControllerSpecFromService(Svc(<<>>, <<>>, <<>>, 0))
           EXCEPT !.replicas = 0]
NoPods == [phases |-> <<>>, err |-> NoErr]

NoLocal ==
  [op |-> "none", services |-> <<>>, id |-> <<>>, kServices |-> <<>>, i |-> 0,
   deployments |-> <<>>, rc |-> NoRC, sl |-> <<>>, rcs |-> <<>>]
NoResult == [status |-> "none", deployments |-> <<>>, err |-> NoErr]

Init ==
  /\ pool \in Pools
  /\ kservices = {ForeignKService}
  /\ rcs = {}
  /\ pods = {}
  /\ nextRV = 1
  /\ pc = [p \in Clients |-> "idle"]
  /\ local = [p \in Clients |-> NoLocal]
  /\ result = [p \in Clients |-> NoResult]
  /\ calls = [p \in Clients |-> <<>>]
  /\ backendErr = [p \in Clients |-> NoErr]
  /\ interfered = [p \in Clients |-> FALSE]
  /\ reqsLeft = MaxRequests
  /\ faultsLeft = MaxFaults

\* ------------------------------------------------------------------ helpers

\* One backend call of p's request: the operation, the object's name, whether
\* it succeeded, what the cluster held at that moment (obs: for an update the
\* number of services still labeled for the controller, for a controller
\* delete its stored desired replicas), and whether no other request had
\* changed the cluster since p's request began (quiet).
Call(p, op, name, ok, obs) ==
  [op |-> op, name |-> name, ok |-> ok, obs |-> obs, quiet |-> ~interfered[p]]

\* The handler of p returns an error: (nil, err).
ReturnError(p, err) ==
  /\ pc' = [pc EXCEPT ![p] = "done"]
  /\ result' = [result EXCEPT ![p] = [status |-> "error", deployments |-> <<>>, err |-> err]]

\* The handler of p returns (deployments, nil).
ReturnOk(p, deployments) ==
  /\ pc' = [pc EXCEPT ![p] = "done"]
  /\ result' = [result EXCEPT ![p] = [status |-> "ok", deployments |-> deployments, err |-> NoErr]]

\* A backend call of p that changed the cluster: every other request in
\* flight or just returned has seen the cluster change under it.
Changed(p) ==
  interfered' = [q \in Clients |-> IF q # p /\ pc[q] # "idle" THEN TRUE ELSE interfered[q]]

Begin(p) ==
  /\ pc[p] \in {"idle", "done"}
  /\ reqsLeft > 0
  /\ reqsLeft' = reqsLeft - 1
  /\ interfered' = [interfered EXCEPT ![p] = FALSE]

KServiceExists(name) == \E s \in kservices : s.name = name
RCExists(name) == \E rc \in rcs : rc.name = name
StoredRC(name) == CHOOSE rc \in rcs : rc.name = name

Goto(p, at) ==
  /\ pc' = [pc EXCEPT ![p] = at]
  /\ result' = [result EXCEPT ![p] = NoResult]

\* The outcomes of one backend call: what the cluster answers in its present
\* state, or a failure of the call itself while failures remain.
Outcomes(answer) == {answer} \cup (IF faultsLeft > 0 THEN {BackendFailure} ELSE {})

Spend(err) == faultsLeft' = IF err = BackendFailure THEN faultsLeft - 1 ELSE faultsLeft

Record(p, call, err) ==
  /\ calls' = [calls EXCEPT ![p] = Append(@, call)]
  /\ backendErr' = [backendErr EXCEPT ![p] = err]

\* ------------------------------------------------------------ cluster answers

\* client.Services(namespace).Create
ServicesCreate(s) == IF KServiceExists(s.name) THEN StatusAlreadyExists(s.name) ELSE NoErr

\* client.ReplicationControllers(namespace).Create
ReplicationControllersCreate(spec) ==
  IF RCExists(spec.name) THEN StatusAlreadyExists(spec.name) ELSE NoErr

\* client.ReplicationControllers(namespace).Get
ReplicationControllersGet(id) == IF RCExists(id) THEN NoErr ELSE StatusNotFoundErr(id)

\* Mutant: the services are selected by their own name, not by the label.
ServicesList_ByName(name) == {s \in kservices : s.name = name}

\* client.Services(namespace).List(selector service-name = name)
ServicesList(name) == {s \in kservices : s.labels.serviceName = name}

\* client.Services(namespace).Delete
ServicesDelete(name) == IF KServiceExists(name) THEN NoErr ELSE StatusNotFoundErr(name)

\* client.ReplicationControllers(namespace).Update: refused when the object is
\* gone or was changed since it was read.
ReplicationControllersUpdate(rc) ==
  IF ~RCExists(rc.name) THEN StatusNotFoundErr(rc.name)
  ELSE IF StoredRC(rc.name).resourceVersion # rc.resourceVersion
       THEN StatusConflictErr(rc.name)
       ELSE NoErr

\* client.ReplicationControllers(namespace).Delete
ReplicationControllersDelete(id) == IF RCExists(id) THEN NoErr ELSE StatusNotFoundErr(id)

\* --------------------------------------------------------------- CreateServices

\* Mutant: the workloads are created without creating the network objects
\* first.
FirstCreatePhase_WorkloadsFirst(kServices, services) ==
  IF Len(services) > 0 THEN "createRC" ELSE "return"

\* Where CreateServices goes once the batch is resolved: CreateKServices
\* first, whose loop is skipped for an empty list, then the loop over the
\* batch, skipped for an empty batch, then the return.
FirstCreatePhase(kServices, services) ==
  IF Len(kServices) > 0 THEN "createKService"
  ELSE IF Len(services) > 0 THEN "createRC"
  ELSE "return"

\* CreateServices up to its first backend call: the batch is resolved into
\* the api.Service list, and a validation error is returned at once.
CreateServices(p, services) ==
  LET r == kServicesFromServices(services) IN
  /\ Begin(p)
  /\ calls' = [calls EXCEPT ![p] = <<>>]
  /\ backendErr' = [backendErr EXCEPT ![p] = NoErr]
  /\ local' = [local EXCEPT ![p] =
       [NoLocal EXCEPT !.op = "create", !.services = services,
                       !.kServices = r.kServices, !.i = 1,
                       !.deployments = [k \in 1..Len(services) |-> NoDeployment]]]
  /\ IF r.err # NoErr THEN ReturnError(p, r.err)
     ELSE IF FirstCreatePhase(r.kServices, services) = "return" THEN ReturnOk(p, <<>>)
     ELSE Goto(p, FirstCreatePhase(r.kServices, services))
  /\ UNCHANGED <<pool, pods, kservices, rcs, nextRV, faultsLeft>>

\* Mutant: the error of CreateKServices is ignored and the workloads are
\* created all the same.
CreateKServicesFailed_Ignored(p, err) == Goto(p, "createRC")

\* CreateServices when CreateKServices returned err.
CreateKServicesFailed(p, err) == ReturnError(p, err)

\* One iteration of the loop of CreateKServices.
CreateKService(p) ==
  /\ pc[p] = "createKService"
  /\ LET l == local[p]
         s == l.kServices[l.i]
     IN \E err \in Outcomes(ServicesCreate(s)) :
          /\ Spend(err)
          /\ Record(p, Call(p, "createKService", s.name, err = NoErr, -1), err)
          /\ IF err # NoErr
             THEN /\ CreateKServicesFailed(p, err)
                  /\ UNCHANGED <<kservices, interfered, local>>
             ELSE /\ kservices' = kservices \cup {s}
                  /\ Changed(p)
                  /\ IF l.i < Len(l.kServices)
                     THEN /\ local' = [local EXCEPT ![p].i = l.i + 1]
                          /\ UNCHANGED <<pc, result>>
                     ELSE /\ local' = [local EXCEPT ![p].i = 1]
                          /\ Goto(p, "createRC")
  /\ UNCHANGED <<pool, pods, rcs, nextRV, reqsLeft>>

\* Mutant: "already exists" is not translated.
CreateReplicationControllerFailed_Untranslated(p, err) == ReturnError(p, err)

\* CreateServices when CreateReplicationController returned err.
CreateReplicationControllerFailed(p, err) ==
  IF IsStatusReason(err, "AlreadyExists")
  THEN ReturnError(p, NewAlreadyExistsError(err.msg))
  ELSE ReturnError(p, err)

\* Mutant: the record's state is left unset.
DeploymentOf_NoState(rc) == [id |-> rc.name, actualState |-> NoStatus]

\* The deployment record CreateServices keeps for the created controller.
DeploymentOf(rc) ==
  [id |-> rc.name, actualState |-> statusFromReplicationController(rc, NoPods).status]

\* One iteration of the loop of CreateServices over the batch.
CreateReplicationController(p) ==
  /\ pc[p] = "createRC"
  /\ LET l == local[p]
         rcSpec == replicationControllerSpecFromService(l.services[l.i])
         rc == [rcSpec EXCEPT !.resourceVersion = nextRV]
         deployments == [l.deployments EXCEPT ![l.i] = DeploymentOf(rc)]
     IN \E err \in Outcomes(ReplicationControllersCreate(rcSpec)) :
          /\ Spend(err)
          /\ Record(p, Call(p, "createRC", rcSpec.name, err = NoErr, -1), err)
          /\ IF err # NoErr
             THEN /\ CreateReplicationControllerFailed(p, err)
                  /\ UNCHANGED <<rcs, nextRV, interfered, local>>
             ELSE /\ rcs' = rcs \cup {rc}
                  /\ nextRV' = nextRV + 1
                  /\ Changed(p)
                  /\ IF l.i < Len(l.services)
                     THEN /\ local' = [local EXCEPT ![p].i = l.i + 1,
                                                    ![p].deployments = deployments]
                          /\ UNCHANGED <<pc, result>>
                     ELSE /\ local' = [local EXCEPT ![p].deployments = deployments]
                          /\ ReturnOk(p, deployments)
  /\ UNCHANGED <<pool, pods, kservices, reqsLeft>>

\* --------------------------------------------------------------- DestroyService

\* Mutant: "not found" is not translated.
DeleteReplicationControllerFailed_Untranslated(p, err) == ReturnError(p, err)

\* DestroyService when DeleteReplicationController returned err.
DeleteReplicationControllerFailed(p, err) ==
  IF IsStatusReason(err, "NotFound")
  THEN ReturnError(p, NewNotFoundError(err.msg))
  ELSE ReturnError(p, err)

\* DestroyService up to the answer of its first backend call, the lookup of
\* the replication controller.
DestroyService(p, id) ==
  /\ Begin(p)
  /\ \E err \in Outcomes(ReplicationControllersGet(id)) :
       /\ Spend(err)
       /\ backendErr' = [backendErr EXCEPT ![p] = err]
       /\ calls' = [calls EXCEPT ![p] = <<[Call(p, "getRC", id, err = NoErr, -1) EXCEPT !.quiet = TRUE]>>]
       /\ IF err # NoErr
          THEN /\ DeleteReplicationControllerFailed(p, err)
               /\ local' = [local EXCEPT ![p] = [NoLocal EXCEPT !.op = "destroy", !.id = id]]
          ELSE /\ Goto(p, "listKServices")
               /\ local' = [local EXCEPT ![p] =
                    [NoLocal EXCEPT !.op = "destroy", !.id = id, !.rc = StoredRC(id)]]
  /\ UNCHANGED <<pool, pods, kservices, rcs, nextRV>>

\* The services labeled for the replication controller are listed.
ListKServices(p) ==
  /\ pc[p] = "listKServices"
  /\ LET l == local[p] IN
     \E err \in Outcomes(NoErr) :
       /\ Spend(err)
       /\ Record(p, Call(p, "listKServices", l.rc.name, err = NoErr, -1), err)
       /\ IF err # NoErr
          THEN /\ DeleteReplicationControllerFailed(p, err)
               /\ UNCHANGED local
          ELSE \E sl \in Orders(ServicesList(l.rc.name)) :
                 /\ local' = [local EXCEPT ![p].sl = sl, ![p].i = 1]
                 /\ Goto(p, IF Len(sl) > 0 THEN "deleteKService" ELSE "updateRC")
  /\ UNCHANGED <<pool, pods, kservices, rcs, nextRV, interfered, reqsLeft>>

\* Mutant: the error of a service delete is ignored and the controller is
\* scaled down all the same.
DeleteKServiceFailed_Ignored(p, err) == Goto(p, "updateRC")

\* DeleteReplicationController returns the error of a service delete, and
\* DestroyService what it makes of it.
DeleteKServiceFailed(p, err) == DeleteReplicationControllerFailed(p, err)

\* One iteration of the loop deleting the listed services.
DeleteKService(p) ==
  /\ pc[p] = "deleteKService"
  /\ LET l == local[p]
         name == l.sl[l.i].name
     IN \E err \in Outcomes(ServicesDelete(name)) :
          /\ Spend(err)
          /\ Record(p, Call(p, "deleteKService", name, err = NoErr, -1), err)
          /\ IF err # NoErr
             THEN /\ DeleteKServiceFailed(p, err)
                  /\ UNCHANGED <<kservices, interfered, local>>
             ELSE /\ kservices' = {s \in kservices : s.name # name}
                  /\ Changed(p)
                  /\ local' = [local EXCEPT ![p].i = l.i + 1]
                  /\ Goto(p, IF l.i < Len(l.sl) THEN "deleteKService" ELSE "updateRC")
  /\ UNCHANGED <<pool, pods, rcs, nextRV, reqsLeft>>

\* Mutant: the controller is updated without being scaled down.
ScaledDown_Unchanged(rc) == rc

\* rc.Spec.Replicas = 0
ScaledDown(rc) == [rc EXCEPT !.replicas = 0]

\* The replication controller is scaled down to zero replicas.
UpdateReplicationController(p) ==
  /\ pc[p] = "updateRC"
  /\ LET l == local[p]
         rc == ScaledDown(l.rc)
     IN \E err \in Outcomes(ReplicationControllersUpdate(rc)) :
          /\ Spend(err)
          /\ Record(p, Call(p, "updateRC", rc.name, err = NoErr,
                            Cardinality(ServicesList(rc.name))), err)
          /\ local' = [local EXCEPT ![p].rc = rc]
          /\ IF err # NoErr
             THEN /\ DeleteReplicationControllerFailed(p, err)
                  /\ UNCHANGED <<rcs, nextRV, interfered>>
             ELSE /\ rcs' = {x \in rcs : x.name # rc.name}
                              \cup {[rc EXCEPT !.resourceVersion = nextRV]}
                  /\ nextRV' = nextRV + 1
                  /\ Changed(p)
                  /\ Goto(p, "deleteRC")
  /\ UNCHANGED <<pool, pods, kservices, reqsLeft>>

\* The replication controller is deleted; DestroyService then sleeps for
\* DeletionWaitTime and returns.
DeleteReplicationController(p) ==
  /\ pc[p] = "deleteRC"
  /\ LET l == local[p] IN
     \E err \in Outcomes(ReplicationControllersDelete(l.id)) :
       /\ Spend(err)
       /\ Record(p, Call(p, "deleteRC", l.id, err = NoErr,
                         IF RCExists(l.id) THEN StoredRC(l.id).replicas ELSE -1), err)
       /\ IF err # NoErr
          THEN /\ DeleteReplicationControllerFailed(p, err)
               /\ UNCHANGED <<rcs, interfered>>
          ELSE /\ rcs' = {x \in rcs : x.name # l.id}
               /\ Changed(p)
               /\ ReturnOk(p, <<>>)
  /\ UNCHANGED <<pool, pods, kservices, nextRV, local, reqsLeft>>

\* ---------------------------------------------------------------- behaviours

Next ==
  \E p \in Clients :
    \/ \E services \in Batches(pool) : CreateServices(p, services)
    \/ CreateKService(p)
    \/ CreateReplicationController(p)
    \/ \E id \in Ids(pool) : DestroyService(p, id)
    \/ ListKServices(p)
    \/ DeleteKService(p)
    \/ UpdateReplicationController(p)
    \/ DeleteReplicationController(p)

Spec == Init /\ [][Next]_vars

\* A run of four requests on one port-exposing service: enough for a destroy
\* to overlap another destroy and a re-creation of the same workload.
RacePools == {<<Svc(NameDb, <<PortB>>, <<>>, 2)>>}

InitRace ==
  /\ pool \in RacePools
  /\ kservices = {ForeignKService}
  /\ rcs = {}
  /\ pods = {}
  /\ nextRV = 1
  /\ pc = [p \in Clients |-> "idle"]
  /\ local = [p \in Clients |-> NoLocal]
  /\ result = [p \in Clients |-> NoResult]
  /\ calls = [p \in Clients |-> <<>>]
  /\ backendErr = [p \in Clients |-> NoErr]
  /\ interfered = [p \in Clients |-> FALSE]
  /\ reqsLeft = MaxRequests + 2
  /\ faultsLeft = MaxFaults

SpecRace == InitRace /\ [][Next]_vars

\* ------------------------------------------------------------------ GetService

\* client.ReplicationControllers(namespace).List(labels.Everything())
ReplicationControllersList == rcs

\* client.Pods(namespace).List(selector service-name = name)
PodsList(name) == {pod \in pods : pod.labels.serviceName = name}

\* The answer of GetPods as statusFromReplicationController reads it: the
\* phases of the listed pods in the order of the list, or the error.
PodsAnswer(list, err) ==
  [phases |-> IF err = NoErr THEN [k \in 1..Len(list) |-> list[k].phase] ELSE <<>>,
   err |-> err]

\* statusFromReplicationController asks for the pods only when the desired
\* and the actual replicas are equal.
QueriesPods(rc) == rc.replicas = rc.statusReplicas

\* GetService returns (pmxadapter.ServiceDeployment{}, err): the one record
\* it returns is kept as a list of one record.
GetServiceFailed(p, err) ==
  /\ pc' = [pc EXCEPT ![p] = "done"]
  /\ result' = [result EXCEPT ![p] =
       [status |-> "error", deployments |-> <<NoDeployment>>, err |-> err]]

\* Mutant: the not-found answer of the lookup is returned as it came.
GetReplicationControllerFailed_Untranslated(p, err) == GetServiceFailed(p, err)

\* GetService when GetReplicationController returned err.
GetReplicationControllerFailed(p, err) ==
  IF IsStatusReason(err, "NotFound")
  THEN GetServiceFailed(p, NewNotFoundError(err.msg))
  ELSE GetServiceFailed(p, err)

\* GetService up to the answer of the lookup of the replication controller;
\* it returns at once when the status needs no pods.
GetService(p, id) ==
  /\ Begin(p)
  /\ \E err \in Outcomes(ReplicationControllersGet(id)) :
       /\ Spend(err)
       /\ backendErr' = [backendErr EXCEPT ![p] = err]
       /\ calls' = [calls EXCEPT ![p] =
            <<[Call(p, "getRC", id, err = NoErr, -1) EXCEPT !.quiet = TRUE]>>]
       /\ IF err # NoErr
          THEN /\ GetReplicationControllerFailed(p, err)
               /\ local' = [local EXCEPT ![p] = [NoLocal EXCEPT !.op = "get", !.id = id]]
          ELSE /\ local' = [local EXCEPT ![p] =
                    [NoLocal EXCEPT !.op = "get", !.id = id, !.rc = StoredRC(id)]]
               /\ IF QueriesPods(StoredRC(id))
                  THEN Goto(p, "getPods")
                  ELSE ReturnOk(p, <<[id |-> StoredRC(id).name,
                                      actualState |->
                                        statusFromReplicationController(StoredRC(id), NoPods).status]>>)
  /\ UNCHANGED <<pool, pods, kservices, rcs, nextRV>>

\* GetService when statusFromReplicationController returned err.
GetPodsFailed(p, err) == GetServiceFailed(p, err)

\* GetService from the pods query of statusFromReplicationController on.
GetServicePods(p) ==
  /\ pc[p] = "getPods"
  /\ LET rc == local[p].rc IN
     \E err \in Outcomes(NoErr), list \in Orders(PodsList(rc.name)) :
       LET r == statusFromReplicationController(rc, PodsAnswer(list, err)) IN
       /\ Spend(err)
       /\ Record(p, Call(p, "getPods", rc.name, err = NoErr, Len(list)), err)
       /\ IF r.err # NoErr
          THEN GetPodsFailed(p, r.err)
          ELSE ReturnOk(p, <<[id |-> rc.name, actualState |-> r.status]>>)
  /\ UNCHANGED <<pool, pods, kservices, rcs, nextRV, interfered, local, reqsLeft>>

\* ----------------------------------------------------------------- GetServices

\* GetServices up to the answer of the list of replication controllers.
GetServices(p) ==
  /\ Begin(p)
  /\ \E err \in Outcomes(NoErr) :
       /\ Spend(err)
       /\ backendErr' = [backendErr EXCEPT ![p] = err]
       /\ calls' = [calls EXCEPT ![p] =
            <<[Call(p, "listRCs", <<>>, err = NoErr, -1) EXCEPT !.quiet = TRUE]>>]
       /\ IF err # NoErr
          THEN /\ ReturnError(p, err)
               /\ local' = [local EXCEPT ![p] = [NoLocal EXCEPT !.op = "list"]]
          ELSE \E list \in Orders(ReplicationControllersList) :
                 /\ local' = [local EXCEPT ![p] =
                      [NoLocal EXCEPT !.op = "list", !.rcs = list, !.i = 1,
                                      !.deployments = [k \in 1..Len(list) |-> NoDeployment]]]
                 /\ IF Len(list) > 0 THEN Goto(p, "status") ELSE ReturnOk(p, <<>>)
  /\ UNCHANGED <<pool, pods, kservices, rcs, nextRV>>

\* Mutant: the pods query failed, and GetServices returns what it has so far.
GetServicesStatusFailed_Partial(p, err) ==
  /\ pc' = [pc EXCEPT ![p] = "done"]
  /\ result' = [result EXCEPT ![p] =
       [status |-> "error", deployments |-> local[p].deployments, err |-> err]]

\* GetServices when statusFromReplicationController returned err: the empty
\* list and the error.
GetServicesStatusFailed(p, err) == ReturnError(p, err)

\* One iteration of the loop of GetServices: the status of one replication
\* controller, with the pods query when the status needs it.
GetServicesStatus(p) ==
  /\ pc[p] = "status"
  /\ LET l == local[p]
         rc == l.rcs[l.i]
     IN \E err \in (IF QueriesPods(rc) THEN Outcomes(NoErr) ELSE {NoErr}),
           list \in Orders(PodsList(rc.name)) :
          LET r == statusFromReplicationController(rc, PodsAnswer(list, err))
              sds == [l.deployments EXCEPT ![l.i] = [id |-> rc.name, actualState |-> r.status]]
          IN
          /\ Spend(err)
          /\ IF QueriesPods(rc)
             THEN Record(p, Call(p, "getPods", rc.name, err = NoErr, Len(list)), err)
             ELSE UNCHANGED <<calls, backendErr>>
          /\ IF r.err # NoErr
             THEN /\ GetServicesStatusFailed(p, r.err)
                  /\ UNCHANGED local
             ELSE IF l.i < Len(l.rcs)
                  THEN /\ local' = [local EXCEPT ![p].i = l.i + 1, ![p].deployments = sds]
                       /\ UNCHANGED <<pc, result>>
                  ELSE /\ local' = [local EXCEPT ![p].deployments = sds]
                       /\ ReturnOk(p, sds)
  /\ UNCHANGED <<pool, pods, kservices, rcs, nextRV, interfered, reqsLeft>>

\* ------------------------------------------------- behaviours of a live cluster

\* The pods of the cluster: for the first workload one running pod, for the
\* second a running and a pending one.
Pod(name, serviceName, phase) ==
  [name |-> name, labels |-> [serviceName |-> serviceName], phase |-> phase]
PodUniverse ==
  {Pod(<<"w", "1">>, sanitizeServiceName(NameWeb), "Running"),
   Pod(<<"d", "1">>, sanitizeServiceName(NameDb), "Running"),
   Pod(<<"d", "2">>, sanitizeServiceName(NameDb), "Pending")}

LivePools == {<<Svc(NameWeb, <<>>, <<>>, 0), Svc(NameDb, <<PortB>>, <<>>, 2)>>}

\* The replication controller of the k-th service of the pool as the cluster
\* reports it with the given actual replicas.
LiveRC(services, k, actual) ==
  [replicationControllerSpecFromService(services[k])
     EXCEPT !.resourceVersion = k, !.statusReplicas = actual]

\* A cluster on which both workloads were deployed some time ago and have
\* reached their desired replicas, with all the pods.
InitLive ==
  /\ pool \in LivePools
  /\ kservices = {ForeignKService}
  /\ rcs = {LiveRC(pool, k, replicationControllerSpecFromService(pool[k]).replicas) :
              k \in 1..Len(pool)}
  /\ pods = PodUniverse
  /\ nextRV = Len(pool) + 1
  /\ pc = [p \in Clients |-> "idle"]
  /\ local = [p \in Clients |-> NoLocal]
  /\ result = [p \in Clients |-> NoResult]
  /\ calls = [p \in Clients |-> <<>>]
  /\ backendErr = [p \in Clients |-> NoErr]
  /\ interfered = [p \in Clients |-> FALSE]
  /\ reqsLeft = MaxRequests
  /\ faultsLeft = MaxFaults

NextLive ==
  \E p \in Clients :
    \/ \E id \in Ids(pool) : GetService(p, id)
    \/ GetServicePods(p)
    \/ GetServices(p)
    \/ GetServicesStatus(p)
    \/ \E id \in Ids(pool) : DestroyService(p, id)
    \/ ListKServices(p)
    \/ DeleteKService(p)
    \/ UpdateReplicationController(p)
    \/ DeleteReplicationController(p)

SpecLive == InitLive /\ [][NextLive]_vars

\* One read request on a cluster in any condition: any actual replica count
\* for each workload, and any of the pods.
InitStatus ==
  /\ pool \in LivePools
  /\ kservices = {ForeignKService}
  /\ \E a, b \in 0..MaxReplicas : rcs = {LiveRC(pool, 1, a), LiveRC(pool, 2, b)}
  /\ pods \in SUBSET PodUniverse
  /\ nextRV = Len(pool) + 1
  /\ pc = [p \in Clients |-> "idle"]
  /\ local = [p \in Clients |-> NoLocal]
  /\ result = [p \in Clients |-> NoResult]
  /\ calls = [p \in Clients |-> <<>>]
  /\ backendErr = [p \in Clients |-> NoErr]
  /\ interfered = [p \in Clients |-> FALSE]
  /\ reqsLeft = 1
  /\ faultsLeft = MaxFaults

NextStatus ==
  \E p \in Clients :
    \/ \E id \in Ids(pool) : GetService(p, id)
    \/ GetServicePods(p)
    \/ GetServices(p)
    \/ GetServicesStatus(p)

SpecStatus == InitStatus /\ [][NextStatus]_vars

\* ---------------------------------------------------------------- HTTP boundary

\* The codes for which net/http's StatusText returns a text.
HttpStatusCodes ==
  {100, 101} \cup (200..206) \cup (300..305) \cup {307} \cup (400..418)
    \cup {428, 429, 431} \cup (500..505) \cup {511}

\* http.StatusText(code) == ""
StatusTextIsEmpty(code) == code \notin HttpStatusCodes

\* Mutant: the code is forwarded as it is.
sanitizeErrorCode_Raw(code) == code

sanitizeErrorCode(code) ==
  IF StatusTextIsEmpty(code) THEN StatusInternalServerError ELSE code

\* err.Error(): the typed error prints its code before its message, any other
\* error its message.
ErrorString(err) ==
  IF err.typ = "pmx"
  THEN [withCode |-> TRUE, code |-> err.code, msg |-> err.msg]
  ELSE [withCode |-> FALSE, code |-> 0, msg |-> err.msg]

\* The (code, body) a handler answers with for the error of the adapter.
handlePotentialPanamaxError(err) ==
  [code |-> IF err.typ = "pmx" THEN sanitizeErrorCode(err.code)
            ELSE StatusInternalServerError,
   body |-> ErrorString(err)]

\* The errors an adapter can hand to a handler: typed errors of any code,
\* untyped errors, and the cluster's errors passed on as they came.
ErrorCodes == (-1..MaxCode) \cup {9090}
AdapterErrors ==
  {NewError(code, [text |-> "message", arg |-> <<>>]) : code \in ErrorCodes}
    \cup {BackendFailure, StatusNotFoundErr(NameDb), StatusAlreadyExists(NameDb),
          StatusConflictErr(NameDb)}

\* A handler of the server whose adapter call returned err.
HandleError(p, err) ==
  /\ Begin(p)
  /\ local' = [local EXCEPT ![p] = [NoLocal EXCEPT !.op = "handle"]]
  /\ calls' = [calls EXCEPT ![p] = <<>>]
  /\ backendErr' = [backendErr EXCEPT ![p] = NoErr]
  /\ pc' = [pc EXCEPT ![p] = "done"]
  /\ result' = [result EXCEPT ![p] =
       [status |-> "error", deployments |-> <<>>, err |-> err,
        code |-> handlePotentialPanamaxError(err).code,
        body |-> handlePotentialPanamaxError(err).body]]
  /\ UNCHANGED <<pool, pods, kservices, rcs, nextRV, faultsLeft>>

InitBoundary ==
  /\ pool = <<>>
  /\ kservices = {}
  /\ rcs = {}
  /\ pods = {}
  /\ nextRV = 1
  /\ pc = [p \in Clients |-> "idle"]
  /\ local = [p \in Clients |-> NoLocal]
  /\ result = [p \in Clients |-> NoResult]
  /\ calls = [p \in Clients |-> <<>>]
  /\ backendErr = [p \in Clients |-> NoErr]
  /\ interfered = [p \in Clients |-> FALSE]
  /\ reqsLeft = 1
  /\ faultsLeft = 0

NextBoundary == \E p \in Clients, err \in AdapterErrors : HandleError(p, err)

SpecBoundary == InitBoundary /\ [][NextBoundary]_vars

\* ------------------------------------------------- behaviours of one create

AliasAlt == <<"A", "l", "t", " ", "N">>

\* The links a service of a batch can declare: none, one or two of a link to
\* the second service under either alias, to the first service, to a service
\* that is in no batch, and an unaliased link to such a service.
LinkChoices ==
  {Link(NameDb, AliasCache), Link(NameDb, AliasAlt), Link(NameWeb, AliasCache),
   Link(NameGhost, AliasCache), Link(NameGhost, NoAlias)}
LinkLists ==
  {<<>>} \cup {<<l>> : l \in LinkChoices}
         \cup {<<l1, l2>> : l1 \in LinkChoices, l2 \in LinkChoices}

ResolvePools ==
  {<<Svc(NameWeb, ports1, links1, 0), Svc(NameDb, ports2, links2, 2)>> :
     ports1 \in {<<>>, <<PortA>>, <<PortA, PortB>>},
     links1 \in LinkLists,
     ports2 \in {<<>>, <<PortB>>, <<PortB, PortA>>},
     links2 \in {l \in LinkLists : Len(l) <= 1}}

\* Two createDeployments requests, of batches in any shape of ports and
\* links, on a cluster that answers every call.
InitResolve ==
  /\ pool \in ResolvePools
  /\ kservices = {ForeignKService}
  /\ rcs = {}
  /\ pods = {}
  /\ nextRV = 1
  /\ pc = [p \in Clients |-> "idle"]
  /\ local = [p \in Clients |-> NoLocal]
  /\ result = [p \in Clients |-> NoResult]
  /\ calls = [p \in Clients |-> <<>>]
  /\ backendErr = [p \in Clients |-> NoErr]
  /\ interfered = [p \in Clients |-> FALSE]
  /\ reqsLeft = 2
  /\ faultsLeft = 0

NextResolve ==
  \E p \in Clients :
    \/ \E services \in Batches(pool) : CreateServices(p, services)
    \/ CreateKService(p)
    \/ CreateReplicationController(p)

SpecResolve == InitResolve /\ [][NextResolve]_vars

\* ------------------------------------------- behaviours of one built workload

EnvName == [variable |-> "VAR_NAME", value |-> "Var Value"]
EnvMode == [variable |-> "MODE", value |-> ""]

\* The services whose workload is built: a first service with any replica
\* count, with or without a start command, with no port or one, and with its
\* environment in any order, and a second one beside it.
BuildPools ==
  {<< [name |-> NameWeb, source |-> "redis", command |-> command,
       ports |-> ports, links |-> <<>>, environment |-> environment,
       count |-> count],
      [name |-> NameDb, source |-> "postgres", command |-> command2,
       ports |-> <<PortB>>, links |-> <<>>, environment |-> <<>>,
       count |-> count2] >> :
     command \in {"", "redis-server"},
     ports \in {<<>>, <<PortA>>},
     environment \in {<<>>, <<EnvName>>, <<EnvName, EnvMode>>, <<EnvMode, EnvName>>},
     count \in 0..MaxReplicas,
     command2 \in {"", "postgres -D /data"},
     count2 \in {0, MaxReplicas}}

\* One createDeployments request on a cluster that answers every call.
InitBuild ==
  /\ pool \in BuildPools
  /\ kservices = {ForeignKService}
  /\ rcs = {}
  /\ pods = {}
  /\ nextRV = 1
  /\ pc = [p \in Clients |-> "idle"]
  /\ local = [p \in Clients |-> NoLocal]
  /\ result = [p \in Clients |-> NoResult]
  /\ calls = [p \in Clients |-> <<>>]
  /\ backendErr = [p \in Clients |-> NoErr]
  /\ interfered = [p \in Clients |-> FALSE]
  /\ reqsLeft = 1
  /\ faultsLeft = 0

SpecBuild == InitBuild /\ [][NextResolve]_vars

\* ------------------------------------------------- behaviours of the sanitizer

\* The characters of a name: a capital, a small letter, a digit, the
\* underscore, the blank, the newline and the hyphen.
NameChars == {"T", "e", "1", "_", " ", "\n", "-"}

\* The name of TestSanitizeServiceName.
NameExample ==
  <<"T", "e", "s", "t", " ", "_", " ", "\n", " ", " ",
    "S", "e", "r", "v", "i", "c", "e">>

Names ==
  UNION {[1..len -> NameChars] : len \in 0..MaxNameLen} \cup {NameExample}

\* sanitizeServiceName is called with the name of the service.
SanitizeName(p) ==
  /\ Begin(p)
  /\ local' = [local EXCEPT ![p] = [NoLocal EXCEPT !.op = "sanitize", !.id = pool[1].name]]
  /\ calls' = [calls EXCEPT ![p] = <<>>]
  /\ backendErr' = [backendErr EXCEPT ![p] = NoErr]
  /\ pc' = [pc EXCEPT ![p] = "done"]
  /\ result' = [result EXCEPT ![p] =
       [status |-> "ok", deployments |-> <<>>, err |-> NoErr,
        name |-> sanitizeServiceName(pool[1].name)]]
  /\ UNCHANGED <<pool, pods, kservices, rcs, nextRV, faultsLeft>>

\* sanitizeServiceName is called with a name it has returned.
SanitizeAgain(p) ==
  /\ Begin(p)
  /\ \E q \in Clients :
       /\ pc[q] = "done"
       /\ local[q].op \in {"sanitize", "resanitize"}
       /\ local' = [local EXCEPT ![p] =
            [NoLocal EXCEPT !.op = "resanitize", !.id = result[q].name]]
       /\ result' = [result EXCEPT ![p] =
            [status |-> "ok", deployments |-> <<>>, err |-> NoErr,
             name |-> sanitizeServiceName(result[q].name)]]
  /\ calls' = [calls EXCEPT ![p] = <<>>]
  /\ backendErr' = [backendErr EXCEPT ![p] = NoErr]
  /\ pc' = [pc EXCEPT ![p] = "done"]
  /\ UNCHANGED <<pool, pods, kservices, rcs, nextRV, faultsLeft>>

InitSanitize ==
  /\ pool \in {<<Svc(n, <<>>, <<>>, 0)>> : n \in Names}
  /\ kservices = {}
  /\ rcs = {}
  /\ pods = {}
  /\ nextRV = 1
  /\ pc = [p \in Clients |-> "idle"]
  /\ local = [p \in Clients |-> NoLocal]
  /\ result = [p \in Clients |-> NoResult]
  /\ calls = [p \in Clients |-> <<>>]
  /\ backendErr = [p \in Clients |-> NoErr]
  /\ interfered = [p \in Clients |-> FALSE]
  /\ reqsLeft = 2
  /\ faultsLeft = 0

NextSanitize == \E p \in Clients : SanitizeName(p) \/ SanitizeAgain(p)

SpecSanitize == InitSanitize /\ [][NextSanitize]_vars

\* --------------------------------------- behaviours of a deploy and its removal

\* The batch of two services where only the second exposes a port and the
\* first links to it under an alias.
CyclePools ==
  {<<Svc(NameWeb, <<>>, <<Link(NameDb, AliasCache)>>, 0),
     Svc(NameDb, <<PortB>>, <<>>, 2)>>}

\* Enough requests to deploy the batch and to destroy each of its workloads.
InitCycle ==
  /\ pool \in CyclePools
  /\ kservices = {ForeignKService}
  /\ rcs = {}
  /\ pods = {}
  /\ nextRV = 1
  /\ pc = [p \in Clients |-> "idle"]
  /\ local = [p \in Clients |-> NoLocal]
  /\ result = [p \in Clients |-> NoResult]
  /\ calls = [p \in Clients |-> <<>>]
  /\ backendErr = [p \in Clients |-> NoErr]
  /\ interfered = [p \in Clients |-> FALSE]
  /\ reqsLeft = MaxRequests + 1
  /\ faultsLeft = MaxFaults

SpecCycle == InitCycle /\ [][Next]_vars

\* -------------------------------------------------------------------- claims

IsCreate(p) == local[p].op = "create"
IsDestroy(p) == local[p].op = "destroy"
Returned(p) == pc[p] = "done"

\* The backend calls of p's request as <<operation, object name>> pairs.
CallKeys(p) == [k \in 1..Len(calls[p]) |-> <<calls[p][k].op, calls[p][k].name>>]
CallsOf(p, op) == {k \in 1..Len(calls[p]) : calls[p][k].op = op}
LastCall(p) == calls[p][Len(calls[p])]

\* The links of a batch that carry an alias.
AliasedLinks(b) ==
  {l \in UNION {{b[k].links[j] : j \in 1..Len(b[k].links)} : k \in 1..Len(b)} :
     l.alias # <<>>}

HasMultiPortService(b) == \E k \in 1..Len(b) : Len(b[k].ports) > 1
HasConflictingAlias(b) ==
  \E l1, l2 \in AliasedLinks(b) : l1.alias = l2.alias /\ l1.name # l2.name
HasAliasToMissingService(b) ==
  \E l \in AliasedLinks(b) : \A k \in 1..Len(b) : b[k].name # l.name
HasAliasToPortlessService(b) ==
  \E l \in AliasedLinks(b) : \E k \in 1..Len(b) : b[k].name = l.name /\ Len(b[k].ports) = 0

FailsValidation(b) ==
  \/ HasMultiPortService(b)
  \/ HasConflictingAlias(b)
  \/ HasAliasToMissingService(b)
  \/ HasAliasToPortlessService(b)

\* C1: a createDeployments request whose batch holds a multi-port service, a
\* conflicting alias, an aliased link to a service outside the batch or an
\* aliased link to a service without ports has returned an error with no
\* deployment records and has issued no backend call at all, so it left the
\* cluster as it found it (a request changes the cluster only through the
\* calls recorded for it).
C1_NoRemoteCallOnInvalidBatch ==
  \A p \in Clients :
    (IsCreate(p) /\ FailsValidation(local[p].services)) =>
      /\ Returned(p)
      /\ result[p].status = "error"
      /\ result[p].deployments = <<>>
      /\ calls[p] = <<>>

\* C1 witness: both clients have submitted a batch that fails validation, one
\* with a multi-port service and one with an aliased link to a service that
\* is not in its batch, and both have returned.
C1_Witness ==
  \E p, q \in Clients :
    /\ p # q /\ IsCreate(p) /\ IsCreate(q) /\ Returned(p) /\ Returned(q)
    /\ HasMultiPortService(local[p].services)
    /\ ~HasMultiPortService(local[q].services)
    /\ HasAliasToMissingService(local[q].services)
    /\ result[p].status = "error" /\ result[q].status = "error"

\* The calls a createDeployments request of batch b issues when none fails:
\* the resolver's network objects in its output order, then the workloads in
\* batch order.
ExpectedCreateCalls(b) ==
  LET ks == kServicesFromServices(b).kServices IN
  [k \in 1..Len(ks) |-> <<"createKService", ks[k].name>>]
    \o [k \in 1..Len(b) |-> <<"createRC", sanitizeServiceName(b[k].name)>>]

\* C2: the calls of a createDeployments request are, at every moment, a
\* prefix of: every network object of the resolver's output in its order,
\* then every workload in batch order; and every call but the latest has
\* succeeded.  Hence each network-object create precedes each workload
\* create, and no workload create is issued before all network objects of
\* the batch were created.
C2_NetworkObjectsBeforeWorkloads ==
  \A p \in Clients :
    IsCreate(p) =>
      LET expected == ExpectedCreateCalls(local[p].services) IN
      /\ Len(calls[p]) <= Len(expected)
      /\ \A k \in 1..Len(calls[p]) :
           /\ CallKeys(p)[k] = expected[k]
           /\ (k < Len(calls[p]) => calls[p][k].ok)

\* C2 witness: a request has created three network objects and then two
\* workloads, and returned.
C2_Witness ==
  \E p \in Clients :
    /\ IsCreate(p) /\ Returned(p) /\ result[p].status = "ok"
    /\ Cardinality(CallsOf(p, "createKService")) = 3
    /\ Cardinality(CallsOf(p, "createRC")) = 2

\* C3: when a network-object create of a createDeployments request fails,
\* that call is the request's last: the request has returned the backend's
\* error unchanged and no deployment record, has issued no workload create
\* and no delete, and the network objects it had created before are still in
\* the cluster unless another request removed them.
C3_NetworkCreateFailureStops ==
  \A p \in Clients : \A k \in 1..Len(calls[p]) :
    (calls[p][k].op = "createKService" /\ ~calls[p][k].ok) =>
      /\ k = Len(calls[p])
      /\ Returned(p)
      /\ result[p].status = "error"
      /\ result[p].err = backendErr[p]
      /\ result[p].deployments = <<>>
      /\ \A j \in 1..(k - 1) : calls[p][j].op = "createKService" /\ calls[p][j].ok
      /\ (~interfered[p] => \A j \in 1..(k - 1) : KServiceExists(calls[p][j].name))

\* C3 witness: the second network-object create of a request has failed and
\* the first network object is in the cluster.
C3_Witness ==
  \E p \in Clients :
    /\ IsCreate(p) /\ Len(calls[p]) = 2
    /\ calls[p][2].op = "createKService" /\ ~calls[p][2].ok
    /\ calls[p][1].ok /\ KServiceExists(calls[p][1].name)
    /\ ~interfered[p]
    /\ result[p].status = "error"

\* C4: when the workload create of the k-th service of a createDeployments
\* request fails, that call is the request's last and the request has
\* returned no deployment record: a Conflict (409) error with the backend's
\* message if the backend said "already exists", the backend's error
\* unchanged otherwise.  The workload creates issued are those of services
\* 1..k in batch order, those of 1..k-1 have succeeded and, unless another
\* request removed them, their workloads are still in the cluster.
C4_WorkloadCreateFailureStops ==
  \A p \in Clients : \A c \in 1..Len(calls[p]) :
    (calls[p][c].op = "createRC" /\ ~calls[p][c].ok) =>
      LET b == local[p].services
          first == CHOOSE j \in CallsOf(p, "createRC") : \A i \in CallsOf(p, "createRC") : j <= i
          k == c - first + 1
      IN /\ c = Len(calls[p])
         /\ Returned(p)
         /\ result[p].status = "error"
         /\ result[p].deployments = <<>>
         /\ result[p].err = IF IsStatusReason(backendErr[p], "AlreadyExists")
                            THEN NewError(StatusConflict, backendErr[p].msg)
                            ELSE backendErr[p]
         /\ k <= Len(b)
         /\ \A j \in 1..k :
              /\ calls[p][first + j - 1].op = "createRC"
              /\ calls[p][first + j - 1].name = sanitizeServiceName(b[j].name)
         /\ \A j \in 1..(k - 1) :
              /\ calls[p][first + j - 1].ok
              /\ (~interfered[p] => RCExists(sanitizeServiceName(b[j].name)))

\* C4 witness: the workload of the second service of a batch failed with
\* "already exists", the request returned a 409 error, and the workload of
\* the first service is in the cluster.
C4_Witness ==
  \E p \in Clients :
    /\ IsCreate(p) /\ Returned(p) /\ Len(local[p].services) = 2
    /\ Cardinality(CallsOf(p, "createRC")) = 2
    /\ ~LastCall(p).ok
    /\ IsStatusReason(backendErr[p], "AlreadyExists")
    /\ result[p].err.code = StatusConflict
    /\ ~interfered[p]
    /\ RCExists(sanitizeServiceName(local[p].services[1].name))

\* The workload the cluster holds right after it created the one of service s:
\* the desired count of the service, 1 for 0, and no replica reported yet.
CreatedWorkload(s) ==
  [replicas |-> IF s.count = 0 THEN 1 ELSE s.count, statusReplicas |-> 0]

\* C5: a createDeployments request returns deployment records only on
\* success and only after every workload of the batch was created; the
\* records of a successful request are one per service in batch order, record
\* i with the sanitized name of service i and the status the aggregator
\* computes from the created workload.
C5_RecordsOnlyOnFullSuccess ==
  \A p \in Clients :
    (IsCreate(p) /\ Returned(p)) =>
      LET b == local[p].services
          created == {k \in CallsOf(p, "createRC") : calls[p][k].ok}
      IN /\ (result[p].status = "ok") = (Cardinality(created) = Len(b) /\ ~FailsValidation(b))
         /\ result[p].status # "ok" => result[p].deployments = <<>>
         /\ result[p].status = "ok" =>
              /\ Len(result[p].deployments) = Len(b)
              /\ \A i \in 1..Len(b) :
                   /\ result[p].deployments[i].id = sanitizeServiceName(b[i].name)
                   /\ result[p].deployments[i].actualState =
                        statusFromReplicationController(CreatedWorkload(b[i]), NoPods).status
                   /\ result[p].deployments[i].actualState.text = "pending"

\* C5 witness: a request for a batch of two services has returned two records.
C5_Witness ==
  \E p \in Clients :
    /\ IsCreate(p) /\ Returned(p) /\ result[p].status = "ok"
    /\ Len(result[p].deployments) = 2
    /\ result[p].deployments[1].id = sanitizeServiceName(NameWeb)
    /\ result[p].deployments[2].id = sanitizeServiceName(NameDb)

\* C6: a destroyDeployment request whose workload lookup was answered "not
\* found" has returned a NotFound (404) error with the backend's message and
\* has issued no other call: no list or delete of network objects, no update
\* and no delete of the workload.
C6_DestroyNotFound ==
  \A p \in Clients :
    (/\ IsDestroy(p) /\ Len(calls[p]) >= 1
     /\ calls[p][1].op = "getRC" /\ ~calls[p][1].ok
     /\ IsStatusReason(backendErr[p], "NotFound")) =>
      /\ Returned(p)
      /\ result[p].status = "error"
      /\ result[p].err = NewError(StatusNotFound, backendErr[p].msg)
      /\ Len(calls[p]) = 1

\* C6 witness: a destroy of an id the cluster does not hold has returned,
\* while the cluster holds a service labeled with that id.
C6_Witness ==
  \E p \in Clients :
    /\ IsDestroy(p) /\ Returned(p)
    /\ ~RCExists(local[p].id)
    /\ ServicesList(local[p].id) # {}
    /\ result[p].err.code = StatusNotFound
    /\ Len(calls[p]) = 1

DestroySucceeded(p) == IsDestroy(p) /\ Returned(p) /\ result[p].status = "ok"

\* The call order of a successful destroy: the lookup, the list, one
\* successful delete for each listed network object and for no other, then
\* the scale-to-zero update, then the workload delete.
DestroyCallOrder(p) ==
  LET n == Len(calls[p])
      sl == local[p].sl
  IN /\ n = Len(sl) + 4
     /\ calls[p][1].op = "getRC" /\ calls[p][2].op = "listKServices"
     /\ \A j \in 1..Len(sl) :
          /\ calls[p][2 + j].op = "deleteKService"
          /\ calls[p][2 + j].name = sl[j].name
          /\ sl[j].labels.serviceName = local[p].id
     /\ calls[p][n - 1].op = "updateRC" /\ calls[p][n - 1].name = local[p].id
     /\ calls[p][n].op = "deleteRC" /\ calls[p][n].name = local[p].id
     /\ \A k \in 1..n : calls[p][k].ok

\* C7 as stated: in a successful destroyDeployment the labeled network
\* objects are deleted, then the workload is scaled, then it is deleted, and
\* the stored workload has desired replicas 0 when the delete call is made.
C7_DestroyOrderAsStated ==
  \A p \in Clients :
    DestroySucceeded(p) =>
      /\ DestroyCallOrder(p)
      /\ calls[p][Len(calls[p])].obs = 0

\* C7 as amended: the call order holds in every successful destroyDeployment
\* for the network objects the list call returned; that the stored workload
\* has desired replicas 0 at the delete call, and that no network object
\* labeled for it is left at the scale-to-zero update, hold when no other
\* request has changed the cluster between the start of the destroy and that
\* call.
C7_DestroyOrderWhenUndisturbed ==
  \A p \in Clients :
    DestroySucceeded(p) =>
      /\ DestroyCallOrder(p)
      /\ calls[p][Len(calls[p])].quiet => calls[p][Len(calls[p])].obs = 0
      /\ calls[p][Len(calls[p]) - 1].quiet => calls[p][Len(calls[p]) - 1].obs = 0

\* C7 witness: an undisturbed destroy has deleted two labeled network
\* objects, scaled the workload and deleted it.
C7_Witness ==
  \E p \in Clients :
    /\ DestroySucceeded(p)
    /\ Len(local[p].sl) = 2
    /\ calls[p][Len(calls[p])].quiet
    /\ calls[p][Len(calls[p])].obs = 0
    /\ local[p].rc.replicas = 0

\* C8: when the delete of a labeled network object fails in a
\* destroyDeployment, that call is the request's last and the request has
\* returned its error (as NotFound if the backend said "not found"): no
\* update and no delete of the workload was issued, and unless another
\* request changed the cluster the network objects listed after the failed
\* one are still there and the workload is stored as it was looked up.
C8_NetworkDeleteFailureStops ==
  \A p \in Clients : \A k \in 1..Len(calls[p]) :
    (calls[p][k].op = "deleteKService" /\ ~calls[p][k].ok) =>
      LET l == local[p] IN
      /\ k = Len(calls[p])
      /\ Returned(p)
      /\ result[p].status = "error"
      /\ result[p].err = IF IsStatusReason(backendErr[p], "NotFound")
                         THEN NewError(StatusNotFound, backendErr[p].msg)
                         ELSE backendErr[p]
      /\ CallsOf(p, "updateRC") = {} /\ CallsOf(p, "deleteRC") = {}
      /\ calls[p][k].name = l.sl[l.i].name
      /\ \A j \in 1..(l.i - 1) : calls[p][2 + j].ok
      /\ ~interfered[p] =>
           /\ \A j \in (l.i + 1)..Len(l.sl) : l.sl[j] \in kservices
           /\ l.rc \in rcs

\* C8 witness: the first of two labeled network objects could not be
\* deleted; the second is still in the cluster and the workload still has
\* its two desired replicas.
C8_Witness ==
  \E p \in Clients :
    /\ IsDestroy(p) /\ Returned(p) /\ result[p].status = "error"
    /\ LastCall(p).op = "deleteKService"
    /\ Len(local[p].sl) = 2 /\ local[p].i = 1
    /\ local[p].sl[2] \in kservices
    /\ ~interfered[p]
    /\ RCExists(local[p].id) /\ StoredRC(local[p].id).replicas = 2

\* The sanitized service names of a batch.
WorkloadNames(b) == {sanitizeServiceName(b[k].name) : k \in 1..Len(b)}

\* C9: when the only two requests so far are createDeployments requests of
\* two clients whose batches share a service name, at most one of them has
\* created that workload, at most one has returned success, and one that
\* failed on the backend's "already exists" has returned a Conflict (409)
\* error.
C9_ConcurrentCreatesConflict ==
  \A p, q \in Clients :
    (/\ p # q /\ IsCreate(p) /\ IsCreate(q)
     /\ reqsLeft = MaxRequests - 2
     /\ WorkloadNames(local[p].services) \cap WorkloadNames(local[q].services) # {}) =>
      /\ \A n \in WorkloadNames(local[p].services) \cap WorkloadNames(local[q].services) :
           ~ /\ \E k \in CallsOf(p, "createRC") : calls[p][k].ok /\ calls[p][k].name = n
             /\ \E k \in CallsOf(q, "createRC") : calls[q][k].ok /\ calls[q][k].name = n
      /\ ~(result[p].status = "ok" /\ result[q].status = "ok")
      /\ (/\ Returned(p) /\ result[p].status = "error"
          /\ IsStatusReason(backendErr[p], "AlreadyExists")) =>
           (result[p].err.typ = "pmx" /\ result[p].err.code = StatusConflict)

\* C10: a request that met the backend's "already exists" has returned the
\* Conflict (409) error made of the backend's message.
C10_AlreadyExistsIsConflict ==
  \A p \in Clients :
    (Returned(p) /\ IsStatusReason(backendErr[p], "AlreadyExists")) =>
      result[p].err = NewError(StatusConflict, backendErr[p].msg)

IsGet(p) == local[p].op = "get"
IsList(p) == local[p].op = "list"

\* C11: a getDeployment or destroyDeployment request that met the backend's
\* "not found" has returned the NotFound (404) error with the backend's
\* message, answered with 404 at the boundary, and a getDeployment has then
\* returned the empty record; one that met any other backend error has
\* returned that error as it came, answered with 500 at the boundary.
C11_NotFoundTranslation ==
  \A p \in Clients :
    (Returned(p) /\ (IsGet(p) \/ IsDestroy(p)) /\ backendErr[p] # NoErr) =>
      /\ result[p].status = "error"
      /\ IsGet(p) => result[p].deployments = <<NoDeployment>>
      /\ IF IsStatusReason(backendErr[p], "NotFound")
         THEN /\ result[p].err.typ = "pmx"
              /\ result[p].err.code = StatusNotFound
              /\ result[p].err.msg = backendErr[p].msg
              /\ handlePotentialPanamaxError(result[p].err).code = StatusNotFound
         ELSE /\ result[p].err = backendErr[p]
              /\ handlePotentialPanamaxError(result[p].err).code = StatusInternalServerError
              /\ handlePotentialPanamaxError(result[p].err).body.msg = backendErr[p].msg

\* A getDeployment of an unknown id has returned, and a destroyDeployment has
\* returned the failure of one of its later backend calls.
C11_Witness ==
  \E p, q \in Clients :
    /\ IsGet(p) /\ Returned(p) /\ IsStatusReason(backendErr[p], "NotFound")
    /\ IsDestroy(q) /\ Returned(q) /\ backendErr[q] = BackendFailure
    /\ Len(calls[q]) > 1


\* The phrase occurs in the words, as consecutive words.
Mentions(words, phrase) ==
  \E k \in 0..(Len(words) - Len(phrase)) :
    \A j \in 1..Len(phrase) : words[k + j] = phrase[j]

\* A createDeployments request whose batch the resolver rejected: it has
\* returned an error without any backend call.
Rejected(p) ==
  IsCreate(p) /\ Returned(p) /\ result[p].status = "error" /\ calls[p] = <<>>

\* C12: a createDeployments request whose batch holds a service with more
\* than one port has returned the Conflict (409) error whose message is the
\* multiple-ports message, which mentions "multiple ports"; the resolver
\* gave no network spec and no backend call was issued.
C12_MultiplePortsRejected ==
  \A p \in Clients :
    (IsCreate(p) /\ HasMultiPortService(local[p].services)) =>
      /\ Rejected(p)
      /\ result[p].err.typ = "pmx"
      /\ result[p].err.code = StatusConflict
      /\ result[p].err.msg.text = multiplePortsError
      /\ Mentions(multiplePortsErrorWords, <<"multiple", "ports">>)
      /\ local[p].kServices = <<>>
      /\ result[p].deployments = <<>>

\* The second service of a two-service batch declares two ports, the first
\* one port, and the request has returned.
C12_Witness ==
  \E p \in Clients :
    /\ IsCreate(p) /\ Returned(p)
    /\ Len(local[p].services) = 2
    /\ Len(local[p].services[1].ports) = 1
    /\ Len(local[p].services[2].ports) = 2


\* The aliases that two links of the batch give to different services.
ConflictingAliases(b) ==
  {l.alias : l \in {x \in AliasedLinks(b) :
                      \E y \in AliasedLinks(b) : x.alias = y.alias /\ x.name # y.name}}

\* The aliased links of the batch, counted with their repetitions.
AliasedLinkPositions(b) ==
  {<<k, j>> \in (1..Len(b)) \X (1..2) : j <= Len(b[k].links) /\ b[k].links[j].alias # <<>>}

\* C13: a createDeployments request whose batch passes the port rule and
\* holds two links of one alias to different services has returned, without
\* any backend call and with no network spec, the error that names such an
\* alias; a batch that breaks no other rule and whose links of one alias all
\* name the same service is accepted, with its network specs.
C13_ConflictingAliasRejected ==
  \A p \in Clients :
    (IsCreate(p) /\ ~HasMultiPortService(local[p].services)) =>
      /\ HasConflictingAlias(local[p].services) =>
           /\ Rejected(p)
           /\ result[p].err.typ = "plain"
           /\ result[p].err.msg.text = "multiple services with the same alias name"
           /\ result[p].err.msg.arg \in ConflictingAliases(local[p].services)
           /\ local[p].kServices = <<>>
           /\ result[p].deployments = <<>>
      /\ (/\ ~HasConflictingAlias(local[p].services)
          /\ ~HasAliasToMissingService(local[p].services)
          /\ ~HasAliasToPortlessService(local[p].services)) =>
           /\ ~Rejected(p)
           /\ Len(local[p].kServices) >= Cardinality(AliasedLinkPositions(local[p].services))

\* One request was rejected for an alias given to two services by the links
\* of different services, and another, whose batch has two links of one
\* alias to one service, was accepted.
C13_Witness ==
  \E p, q \in Clients :
    /\ Rejected(p) /\ Len(local[p].services) = 2
    /\ \E l1, l2 \in AliasedLinks(local[p].services) :
         /\ l1.alias = l2.alias /\ l1.name # l2.name
         /\ \E j \in 1..Len(local[p].services[1].links) : local[p].services[1].links[j] = l1
         /\ \E j \in 1..Len(local[p].services[2].links) : local[p].services[2].links[j] = l2
    /\ IsCreate(q) /\ ~Rejected(q)
    /\ Len(local[q].services[1].links) = 2
    /\ local[q].services[1].links[1] = local[q].services[1].links[2]
    /\ local[q].services[1].links[1].alias # <<>>


\* The link at a position <<k, j>> of the batch: link j of service k.
LinkAt(b, pos) == b[pos[1]].links[pos[2]]

TargetMissing(b, l) == \A k \in 1..Len(b) : b[k].name # l.name
TargetPortless(b, l) == \E k \in 1..Len(b) : b[k].name = l.name /\ Len(b[k].ports) = 0

\* The positions of the aliased links whose target is missing or exposes no
\* port, and the first of them in batch order.
BadLinkPositions(b) ==
  {pos \in AliasedLinkPositions(b) :
     TargetMissing(b, LinkAt(b, pos)) \/ TargetPortless(b, LinkAt(b, pos))}
Before(pos1, pos2) ==
  pos1[1] < pos2[1] \/ (pos1[1] = pos2[1] /\ pos1[2] <= pos2[2])
FirstBadLink(b) ==
  LinkAt(b, CHOOSE pos \in BadLinkPositions(b) :
              \A other \in BadLinkPositions(b) : Before(pos, other))

\* C14: a createDeployments request whose batch breaks a validation rule has
\* returned the error of the earliest rule it breaks: the multiple-ports
\* error; else the error of an alias given to two services; else, for the
\* first aliased link in batch order whose target is missing or exposes no
\* port, the missing-target error if the target is missing and the no-ports
\* error otherwise.
C14_ValidationPrecedence ==
  \A p \in Clients :
    (IsCreate(p) /\ FailsValidation(local[p].services)) =>
      LET b == local[p].services IN
      /\ Rejected(p)
      /\ IF HasMultiPortService(b)
         THEN result[p].err.msg.text = multiplePortsError
         ELSE IF HasConflictingAlias(b)
         THEN result[p].err.msg.text = "multiple services with the same alias name"
         ELSE IF TargetMissing(b, FirstBadLink(b))
         THEN /\ result[p].err.msg.text = "linking to non-existant service"
              /\ result[p].err.msg.arg = FirstBadLink(b).name
         ELSE /\ result[p].err.msg.text = "linked-to service exposes no ports"
              /\ result[p].err.msg.arg = FirstBadLink(b).name

\* One request, whose batch has a multi-port service, an alias given to two
\* services and an aliased link to a missing service, was rejected; another,
\* whose first bad link has a portless target and whose second has a missing
\* one, was rejected too.
C14_Witness ==
  \E p, q \in Clients :
    /\ Rejected(p)
    /\ HasMultiPortService(local[p].services)
    /\ HasConflictingAlias(local[p].services)
    /\ HasAliasToMissingService(local[p].services)
    /\ Rejected(q)
    /\ ~HasMultiPortService(local[q].services)
    /\ ~HasConflictingAlias(local[q].services)
    /\ Cardinality(BadLinkPositions(local[q].services)) = 2
    /\ TargetPortless(local[q].services, FirstBadLink(local[q].services))
    /\ \E pos \in BadLinkPositions(local[q].services) :
         TargetMissing(local[q].services, LinkAt(local[q].services, pos))


\* A batch that passes the port rule and the alias rule.
PassesPortAndAliasRules(b) == ~HasMultiPortService(b) /\ ~HasConflictingAlias(b)

\* C15 as stated: a request whose batch passes the first two rules and has an
\* aliased link to a missing service, and none to a portless one, has
\* returned the error "linking to non-existent service"; one with an aliased
\* link to a portless service, and none to a missing one, the error
\* "linked-to service exposes no ports"; in both cases without any network
\* spec.
C15_LinkTargetErrorsAsStated ==
  \A p \in Clients :
    (IsCreate(p) /\ PassesPortAndAliasRules(local[p].services)) =>
      LET b == local[p].services IN
      /\ (HasAliasToMissingService(b) \/ HasAliasToPortlessService(b)) =>
           Rejected(p) /\ local[p].kServices = <<>>
      /\ (HasAliasToMissingService(b) /\ ~HasAliasToPortlessService(b)) =>
           result[p].err.msg.text = "linking to non-existent service"
      /\ (HasAliasToPortlessService(b) /\ ~HasAliasToMissingService(b)) =>
           result[p].err.msg.text = "linked-to service exposes no ports"

\* C15: a request whose batch passes the first two rules and has an aliased
\* link to a missing service, and none to a portless one, has returned the
\* error "linking to non-existant service" naming the target; one with an
\* aliased link to a portless service, and none to a missing one, the error
\* "linked-to service exposes no ports" naming the target; in both cases
\* without any network spec and without any backend call.
C15_LinkTargetErrors ==
  \A p \in Clients :
    (IsCreate(p) /\ PassesPortAndAliasRules(local[p].services)) =>
      LET b == local[p].services IN
      /\ (HasAliasToMissingService(b) \/ HasAliasToPortlessService(b)) =>
           /\ Rejected(p)
           /\ local[p].kServices = <<>>
           /\ result[p].deployments = <<>>
           /\ result[p].err.typ = "plain"
      /\ (HasAliasToMissingService(b) /\ ~HasAliasToPortlessService(b)) =>
           /\ result[p].err.msg.text = "linking to non-existant service"
           /\ TargetMissing(b, [name |-> result[p].err.msg.arg])
      /\ (HasAliasToPortlessService(b) /\ ~HasAliasToMissingService(b)) =>
           /\ result[p].err.msg.text = "linked-to service exposes no ports"
           /\ TargetPortless(b, [name |-> result[p].err.msg.arg])

\* One request was rejected for an aliased link to a missing service, in a
\* batch with a service that exposes a port; another for an aliased link to
\* a service of its batch that exposes no port, in a batch with a service
\* that does.
C15_Witness ==
  \E p, q \in Clients :
    /\ Rejected(p) /\ PassesPortAndAliasRules(local[p].services)
    /\ HasAliasToMissingService(local[p].services)
    /\ ~HasAliasToPortlessService(local[p].services)
    /\ \E k \in 1..Len(local[p].services) : Len(local[p].services[k].ports) = 1
    /\ Rejected(q) /\ PassesPortAndAliasRules(local[q].services)
    /\ HasAliasToPortlessService(local[q].services)
    /\ ~HasAliasToMissingService(local[q].services)
    /\ \E k \in 1..Len(local[q].services) : Len(local[q].services[k].ports) = 1


\* The services of the batch that expose a port, by their position, and the
\* place of each among them.
PortIndexes(b) == {k \in 1..Len(b) : Len(b[k].ports) > 0}
PortRank(b, k) == Cardinality({j \in PortIndexes(b) : j <= k})

\* A createDeployments request whose batch the resolver accepted.
Accepted(p) == IsCreate(p) /\ ~FailsValidation(local[p].services)

\* C16: for a request whose batch breaks no rule, the first network specs of
\* the resolver are, in batch order, one per service that exposes a port and
\* none for a service that does not: named and labeled "service-name" with
\* the service's sanitized name, with the host port, container port and
\* protocol of its first port, and selecting on the application marker label
\* alone; the request was not rejected.
C16_ByNameNetworkSpecs ==
  \A p \in Clients :
    Accepted(p) =>
      LET b == local[p].services
          out == local[p].kServices
      IN
      /\ ~Rejected(p)
      /\ Len(out) >= Cardinality(PortIndexes(b))
      /\ \A k \in 1..Len(b) :
           LET named == {i \in 1..Cardinality(PortIndexes(b)) :
                           out[i].name = sanitizeServiceName(b[k].name)}
           IN IF k \in PortIndexes(b)
              THEN /\ named = {PortRank(b, k)}
                   /\ out[PortRank(b, k)] =
                        [name |-> sanitizeServiceName(b[k].name),
                         labels |-> [serviceName |-> sanitizeServiceName(b[k].name)],
                         selector |-> [panamax |-> "panamax"],
                         port |-> b[k].ports[1].hostPort,
                         containerPort |-> b[k].ports[1].containerPort,
                         protocol |-> b[k].ports[1].protocol,
                         publicIPs |-> <<>>]
              ELSE named = {}
      /\ (PortIndexes(b) = {} /\ AliasedLinks(b) = {}) => out = <<>>

\* One request's batch of two services, of which the first exposes a port and
\* the second none, was accepted, and so was another's batch of one service
\* that exposes none and is aliased by nobody.
C16_Witness ==
  \E p, q \in Clients :
    /\ Accepted(p) /\ Len(local[p].services) = 2
    /\ PortIndexes(local[p].services) = {1}
    /\ sanitizeServiceName(local[p].services[1].name) # local[p].services[1].name
    /\ Len(local[p].kServices) = 1
    /\ Accepted(q) /\ Len(local[q].services) = 1
    /\ PortIndexes(local[q].services) = {}
    /\ Returned(q) /\ result[q].status = "ok"


\* The place of an aliased link among the aliased links of the batch, in
\* batch order.
AliasRank(b, pos) == Cardinality({other \in AliasedLinkPositions(b) : Before(other, pos)})

\* The service of the batch that a link names.
TargetOf(b, l) == b[CHOOSE k \in 1..Len(b) : b[k].name = l.name]

\* C17: for a request whose batch breaks no rule, the resolver's network
\* specs are the by-name ones followed by exactly one per aliased link, in
\* batch order, named by the sanitized alias, with the host port, container
\* port and protocol of the first port of the service the link names; a link
\* without alias adds none and does not reject the batch.
C17_ByAliasNetworkSpecs ==
  \A p \in Clients :
    Accepted(p) =>
      LET b == local[p].services
          out == local[p].kServices
          n == Cardinality(PortIndexes(b))
      IN
      /\ ~Rejected(p)
      /\ Len(out) = n + Cardinality(AliasedLinkPositions(b))
      /\ \A pos \in AliasedLinkPositions(b) :
           LET l == LinkAt(b, pos)
               ks == out[n + AliasRank(b, pos)]
           IN /\ ks.name = sanitizeServiceName(l.alias)
              /\ ks.port = TargetOf(b, l).ports[1].hostPort
              /\ ks.containerPort = TargetOf(b, l).ports[1].containerPort
              /\ ks.protocol = TargetOf(b, l).ports[1].protocol

\* A request's batch was accepted in which only the second service exposes a
\* port and the first links to it under an alias and, without alias, to a
\* service that is not in the batch: the resolver gave two network specs.
C17_Witness ==
  \E p \in Clients :
    /\ Accepted(p) /\ Len(local[p].services) = 2
    /\ local[p].services[1].ports = <<>>
    /\ local[p].services[2].ports = <<PortB>>
    /\ local[p].services[1].links = <<Link(NameDb, AliasAlt), Link(NameGhost, NoAlias)>>
    /\ local[p].services[2].links = <<>>
    /\ Len(local[p].kServices) = 2
    /\ local[p].kServices[1].name = sanitizeServiceName(NameDb)
    /\ local[p].kServices[2].name = sanitizeServiceName(AliasAlt)
    /\ local[p].kServices[2].port = PortB.hostPort


IsRead(p) == IsGet(p) \/ IsList(p)

\* The pods of the cluster labeled "service-name" for the workload whose
\* phase is running.
RunningPods(name) ==
  {pod \in pods : pod.labels.serviceName = name /\ pod.phase = "Running"}

\* The status the aggregator is to report for a replication controller of
\* the cluster.
ExpectedStatus(rc) ==
  IF rc.statusReplicas < rc.replicas
  THEN [text |-> "pending", running |-> 0, desired |-> 0]
  ELSE IF rc.statusReplicas > rc.replicas
  THEN [text |-> "unknown", running |-> 0, desired |-> 0]
  ELSE [text |-> "running", running |-> Cardinality(RunningPods(rc.name)),
        desired |-> rc.replicas]

\* C18: every record a read request has returned reports, for its workload,
\* "pending" when the actual replicas are fewer than the desired ones,
\* "unknown" when they are more, and otherwise "running r/d" with d the
\* desired replicas and r the number of running pods labeled for the
\* workload; and the pods were asked for only for workloads whose actual
\* and desired replicas are equal, once for each such workload reported.
C18_StatusAggregation ==
  \A p \in Clients :
    IsRead(p) =>
      /\ \A k \in CallsOf(p, "getPods") :
           /\ RCExists(calls[p][k].name)
           /\ StoredRC(calls[p][k].name).statusReplicas = StoredRC(calls[p][k].name).replicas
      /\ (Returned(p) /\ result[p].status = "ok") =>
           /\ \A k \in 1..Len(result[p].deployments) :
                LET sd == result[p].deployments[k] IN
                /\ RCExists(sd.id)
                /\ sd.actualState = ExpectedStatus(StoredRC(sd.id))
                /\ Cardinality({c \in CallsOf(p, "getPods") : calls[p][c].name = sd.id})
                     = IF StoredRC(sd.id).statusReplicas = StoredRC(sd.id).replicas
                       THEN 1 ELSE 0
           /\ IsList(p) => Len(result[p].deployments) = Cardinality(rcs)

\* A list request has returned "running 1/2" for the workload with two
\* desired and two actual replicas, one running and one pending pod, and
\* "unknown" for the workload with more actual than desired replicas.
C18_Witness ==
  \E p \in Clients :
    /\ IsList(p) /\ Returned(p) /\ result[p].status = "ok"
    /\ \E k \in 1..Len(result[p].deployments) :
         /\ result[p].deployments[k].id = sanitizeServiceName(NameDb)
         /\ result[p].deployments[k].actualState =
              [text |-> "running", running |-> 1, desired |-> 2]
         /\ Cardinality(PodsList(sanitizeServiceName(NameDb))) = 2
    /\ \E k \in 1..Len(result[p].deployments) :
         /\ result[p].deployments[k].id = sanitizeServiceName(NameWeb)
         /\ result[p].deployments[k].actualState.text = "unknown"
    /\ pods = PodUniverse


\* A read request whose pods query failed.
PodsQueryFailed(p) ==
  /\ IsRead(p) /\ Returned(p) /\ backendErr[p] # NoErr
  /\ calls[p][Len(calls[p])].op = "getPods"

\* C19: when the pods query fails the aggregator gives the failure and the
\* empty status; a getDeployment request whose pods query failed has returned
\* that failure with the empty record, and a listDeployments request has
\* returned it with the empty list, whatever it had aggregated before.
C19_PodsQueryFailurePropagates ==
  /\ \A rc \in rcs :
       rc.statusReplicas = rc.replicas =>
         statusFromReplicationController(rc, PodsAnswer(<<>>, BackendFailure))
           = [status |-> NoStatus, err |-> BackendFailure]
  /\ \A p \in Clients :
       PodsQueryFailed(p) =>
         /\ result[p].status = "error"
         /\ result[p].err = backendErr[p]
         /\ IsGet(p) => result[p].deployments = <<NoDeployment>>
         /\ IsList(p) => result[p].deployments = <<>>

\* A listDeployments request has returned the failure of the pods query of
\* the second workload after it had aggregated the status of the first.
C19_Witness ==
  \E p \in Clients :
    /\ PodsQueryFailed(p) /\ IsList(p)
    /\ local[p].i = 2
    /\ local[p].deployments[1] # NoDeployment


IsHandled(p) == local[p].op = "handle" /\ Returned(p)

\* C20: the code a handler has answered with for an adapter error is a code
\* that has a standard status text: the error's own code for a typed error
\* whose code has one, 500 for a typed error whose code has none, and 500
\* for an untyped error.
C20_BoundaryCodeIsStandard ==
  \A p \in Clients :
    IsHandled(p) =>
      /\ result[p].code \in HttpStatusCodes
      /\ (result[p].err.typ = "pmx" /\ result[p].err.code \in HttpStatusCodes) =>
           result[p].code = result[p].err.code
      /\ (result[p].err.typ = "pmx" /\ result[p].err.code \notin HttpStatusCodes) =>
           result[p].code = StatusInternalServerError
      /\ result[p].err.typ # "pmx" => result[p].code = StatusInternalServerError

\* A handler has answered a typed error of code 9090 with 500.
C20_Witness ==
  \E p \in Clients :
    /\ IsHandled(p)
    /\ result[p].err.typ = "pmx" /\ result[p].err.code = 9090
    /\ result[p].code = StatusInternalServerError

\* The workload create calls of p's request that succeeded, and for such a
\* call the service of the batch it was made for and the controller the
\* cluster stored from it.
WorkloadCreates(p) ==
  {k \in 1..Len(calls[p]) : calls[p][k].op = "createRC" /\ calls[p][k].ok}
BuiltFrom(p, k) ==
  local[p].services[Cardinality({j \in 1..k : calls[p][j].op = "createRC"})]
Sent(p, k) == StoredRC(calls[p][k].name)

\* C21: every workload createDeployments has created asks for one replica
\* when its service's replica count is 0 and for the service's count when that
\* is above 0, hence never for 0 replicas.
C21_ReplicasDefaultToOne ==
  \A p \in Clients : \A k \in WorkloadCreates(p) :
    IsCreate(p) =>
      /\ BuiltFrom(p, k).count = 0 => Sent(p, k).replicas = 1
      /\ BuiltFrom(p, k).count > 0 => Sent(p, k).replicas = BuiltFrom(p, k).count
      /\ Sent(p, k).replicas # 0

\* A batch of a service without a replica count and one with a count above
\* one has been deployed.
C21_Witness ==
  \E p \in Clients :
    /\ IsCreate(p) /\ Returned(p) /\ result[p].status = "ok"
    /\ \E j, k \in WorkloadCreates(p) :
         /\ BuiltFrom(p, j).count = 0 /\ Sent(p, j).replicas = 1
         /\ BuiltFrom(p, k).count > 1 /\ Sent(p, k).replicas = BuiltFrom(p, k).count

IsSanitize(p) == local[p].op \in {"sanitize", "resanitize"}

\* The positions of a name that have a character of their own in its
\* identifier: those of a letter or digit, and the first position of every
\* run of other characters; and the j-th of them.
Emitting(n) ==
  {i \in 1..Len(n) :
     \/ n[i] \in Lower \cup Upper \cup Digits
     \/ i = 1
     \/ n[i - 1] \in Lower \cup Upper \cup Digits}
EmittingAt(n, j) ==
  CHOOSE i \in Emitting(n) : Cardinality({x \in Emitting(n) : x <= i}) = j

\* C22: the identifier the sanitizer returns for a name is the name's letters
\* and digits in their order, capitals lower-cased, with one "-" in the place
\* of every maximal run of other characters (underscore, blank, newline and
\* hyphen among them); for the name of the example it is "test-service".
C22_SanitizedForm ==
  \A p \in Clients :
    IsSanitize(p) =>
      LET n == local[p].id
          out == result[p].name
      IN /\ Len(out) = Cardinality(Emitting(n))
         /\ \A j \in 1..Len(out) :
              out[j] = IF n[EmittingAt(n, j)] \in Lower \cup Upper \cup Digits
                       THEN ToLowerChar(n[EmittingAt(n, j)])
                       ELSE "-"
         /\ n = NameExample =>
              out = <<"t", "e", "s", "t", "-", "s", "e", "r", "v", "i", "c", "e">>

\* The name of the example has been sanitized.
C22_Witness ==
  \E p \in Clients :
    /\ IsSanitize(p) /\ local[p].id = NameExample
    /\ result[p].name = <<"t", "e", "s", "t", "-", "s", "e", "r", "v", "i", "c", "e">>

\* C23: sanitizing an identifier the sanitizer has returned returns it
\* unchanged.
C23_SanitizerIdempotent ==
  \A p \in Clients :
    local[p].op = "resanitize" => result[p].name = local[p].id

\* An identifier that differs from its name has been sanitized again.
C23_Witness ==
  \E p, q \in Clients :
    /\ local[q].op = "sanitize" /\ result[q].name # local[q].id
    /\ Len(result[q].name) > 1
    /\ local[p].op = "resanitize" /\ local[p].id = result[q].name

\* C24: every workload createDeployments has created is named by its
\* service's sanitized name, selects on it, and has one container of that
\* name whose image is the service's source, whose ports are the service's
\* ports with host port, container port and protocol in their order, and whose
\* environment is the service's pairs of variable and value in their order;
\* its pod template carries the labels service-name, the sanitized name, and
\* panamax, and no other.
C24_WorkloadSpecFromService ==
  \A p \in Clients : \A k \in WorkloadCreates(p) :
    IsCreate(p) =>
      LET s == BuiltFrom(p, k)
          rc == Sent(p, k)
          safe == sanitizeServiceName(s.name)
          c == rc.containers[1]
      IN /\ rc.name = safe
         /\ rc.selector = [serviceName |-> safe]
         /\ rc.labels = [serviceName |-> safe, panamax |-> "panamax"]
         /\ Len(rc.containers) = 1
         /\ c.name = safe
         /\ c.image = s.source
         /\ Len(c.ports) = Len(s.ports)
         /\ \A i \in 1..Len(s.ports) :
              /\ c.ports[i].hostPort = s.ports[i].hostPort
              /\ c.ports[i].containerPort = s.ports[i].containerPort
              /\ c.ports[i].protocol = s.ports[i].protocol
         /\ Len(c.env) = Len(s.environment)
         /\ \A i \in 1..Len(s.environment) :
              /\ c.env[i].name = s.environment[i].variable
              /\ c.env[i].value = s.environment[i].value

\* A workload has been created for a service whose name is not its
\* identifier, with a port and two different environment pairs.
C24_Witness ==
  \E p \in Clients : \E k \in WorkloadCreates(p) :
    /\ IsCreate(p)
    /\ BuiltFrom(p, k).name # Sent(p, k).name
    /\ Len(Sent(p, k).containers[1].ports) = 1
    /\ Len(Sent(p, k).containers[1].env) = 2
    /\ Sent(p, k).containers[1].env[1] # Sent(p, k).containers[1].env[2]

\* C25: the one container of every workload createDeployments has created
\* has no command when its service's start command is the empty string, and
\* the start command as its only argument otherwise; its command is never
\* the one empty argument.
C25_CommandList ==
  \A p \in Clients : \A k \in WorkloadCreates(p) :
    IsCreate(p) =>
      LET s == BuiltFrom(p, k)
          command == Sent(p, k).containers[1].command
      IN /\ s.command = "" => command = <<>>
         /\ s.command # "" => command = <<s.command>>
         /\ command # <<"">>

\* A batch of a service without a start command and one with a start command
\* has been deployed.
C25_Witness ==
  \E p \in Clients : \E j, k \in WorkloadCreates(p) :
    /\ IsCreate(p)
    /\ BuiltFrom(p, j).command = "" /\ Sent(p, j).containers[1].command = <<>>
    /\ BuiltFrom(p, k).command # "" /\ Len(Sent(p, k).containers[1].command) = 1

\* The names of the pool's services as the caller wrote them.
PoolNames == {pool[k].name : k \in 1..Len(pool)}

\* C26: a getDeployment or destroyDeployment given the name of a deployed
\* service looks up the workload under the name's sanitized form, the name
\* createDeployments gave it, and so does not miss a workload that is there
\* and that no other request has touched.
C26_LookupSanitizesName ==
  \A p \in Clients :
    ((IsGet(p) \/ IsDestroy(p)) /\ calls[p] # <<>> /\ local[p].id \in PoolNames) =>
      /\ calls[p][1].name = sanitizeServiceName(local[p].id)
      /\ (RCExists(sanitizeServiceName(local[p].id)) /\ ~interfered[p]
            /\ Len(calls[p]) = 1)
           => ~IsStatusReason(backendErr[p], "NotFound")

\* None of the workloads of p's batch is in the cluster; none of the network
\* objects resolved for p's batch is in the cluster.
NoWorkloadLeft(p) ==
  \A k \in 1..Len(local[p].services) :
    ~RCExists(sanitizeServiceName(local[p].services[k].name))
NoNetworkObjectLeft(p) ==
  \A k \in 1..Len(local[p].kServices) : ~KServiceExists(local[p].kServices[k].name)

\* C27: once a createDeployments has deployed its batch with no other request
\* at work, and every workload it created has been destroyed since, none of
\* the network objects created for the batch is left, those of the link
\* aliases included.
C27_DestroyRemovesNetworkObjects ==
  \A p \in Clients :
    (/\ IsCreate(p) /\ Returned(p) /\ result[p].status = "ok" /\ LastCall(p).quiet
     /\ \A q \in Clients \ {p} :
          IsDestroy(q) /\ Returned(q) /\ result[q].status = "ok"
     /\ NoWorkloadLeft(p))
      => NoNetworkObjectLeft(p)

\* C28: once a createDeployments has failed at the workload of the last
\* service of its batch with no other request at work, the workloads it had
\* created have been destroyed since and a destroyDeployment of the last
\* service's sanitized name has returned after them, none of the network
\* objects the failed request created is left.
C28_DestroyCleansFailedCreate ==
  \A p, q \in Clients :
    (/\ IsCreate(p) /\ Returned(p) /\ result[p].status = "error"
     /\ calls[p] # <<>> /\ LastCall(p).op = "createRC" /\ LastCall(p).quiet
     /\ Len(local[p].services) > 1 /\ local[p].i = Len(local[p].services)
     /\ IsDestroy(q) /\ Returned(q)
     /\ local[q].id = sanitizeServiceName(local[p].services[local[p].i].name)
     /\ NoWorkloadLeft(p))
      => NoNetworkObjectLeft(p)

\* C29: the network specs the resolver returns for a batch that breaks no
\* rule have pairwise distinct names, so that none of their creates is
\* answered "already exists" because of another of them.
C29_NetworkSpecNamesDistinct ==
  \A p \in Clients :
    Accepted(p) =>
      /\ \A j, k \in 1..Len(local[p].kServices) :
           local[p].kServices[j].name = local[p].kServices[k].name => j = k
      /\ \A k \in 1..Len(calls[p]) :
           (calls[p][k].op = "createKService" /\ ~calls[p][k].ok /\ calls[p][k].quiet)
             => \A j \in 1..(k - 1) : calls[p][j].name # calls[p][k].name

\* C30: when a destroyDeployment of a workload that was there has failed at
\* a step after the lookup, a destroyDeployment of the same id in which every
\* backend call succeeded, and during which no other request changed the
\* cluster, has returned success, and neither the workload nor a network
\* object labeled with its name is left.
C30_DestroyRetrySucceeds ==
  \A p, q \in Clients :
    (/\ p # q
     /\ IsDestroy(p) /\ Returned(p) /\ result[p].status = "error"
     /\ Len(calls[p]) > 1
     /\ IsDestroy(q) /\ Returned(q) /\ local[q].id = local[p].id
     /\ \A k \in 1..Len(calls[q]) : calls[q][k].ok
     /\ ~interfered[q])
      => /\ result[q].status = "ok"
         /\ ~RCExists(local[q].id)
         /\ \A s \in kservices : s.labels.serviceName # local[q].id

\* A destroyDeployment failed at the delete of the workload, after the
\* labeled network object was deleted and the workload scaled to zero; the
\* next destroyDeployment of the same id found the workload at zero replicas,
\* updated and deleted it.
C30_Witness ==
  \E p, q \in Clients :
    /\ p # q
    /\ IsDestroy(p) /\ Returned(p) /\ result[p].status = "error"
    /\ LastCall(p).op = "deleteRC"
    /\ CallsOf(p, "deleteKService") # {}
    /\ IsDestroy(q) /\ Returned(q) /\ local[q].id = local[p].id
    /\ result[q].status = "ok"
    /\ ~interfered[q]
    /\ CallsOf(q, "deleteKService") = {}
    /\ CallsOf(q, "updateRC") # {} /\ LastCall(q).op = "deleteRC" /\ LastCall(q).ok
    /\ ~RCExists(local[q].id)

====
